---------------------------- MODULE Spec2Model ----------------------------
(***************************************************************************)
(* Model of pipeline/secret_helper.py: the structured-output recovery      *)
(* engine (json parsing + repair cascade, normalisation, cliche lint).     *)
(*                                                                         *)
(* A Python str is a sequence of one-character strings.  A Python object   *)
(* is a record tagged by its type in field t:                              *)
(*   none | bool(b) | int(n) | float(neg, m, e) | special(k) | str(s)      *)
(*   | list(a) | dict(keys, m)                                             *)
(* A float is neg * m * 10^e in canonical form (m not divisible by 10).    *)
(* A dict keeps its keys in insertion order (keys) and its mapping (m).    *)
(***************************************************************************)
EXTENDS Integers, Sequences, FiniteSets, TLC

(***************************************************************************)
(* Characters                                                              *)
(***************************************************************************)
Digits == {"0", "1", "2", "3", "4", "5", "6", "7", "8", "9"}

DigitVal == [c \in Digits |->
               CASE c = "0" -> 0 [] c = "1" -> 1 [] c = "2" -> 2 [] c = "3" -> 3
                 [] c = "4" -> 4 [] c = "5" -> 5 [] c = "6" -> 6 [] c = "7" -> 7
                 [] c = "8" -> 8 [] c = "9" -> 9]

DigitChar == <<"0", "1", "2", "3", "4", "5", "6", "7", "8", "9">>

HexDigits == Digits \cup {"a", "b", "c", "d", "e", "f", "A", "B", "C", "D", "E", "F"}

\* json.decoder.WHITESPACE: [ \t\n\r]*
JsonWs == {" ", "\t", "\n", "\r"}

\* str.isspace() on the characters of the model (used by strip / rstrip)
PyWs == {" ", "\t", "\n", "\r", "\f"}

\* characters below 0x20, which a strict json string may not contain
ControlChars == {"\t", "\n", "\r", "\f", "BS"}

Upper == <<"A", "B", "C", "D", "E", "F", "G", "H", "I", "J", "K", "L", "M",
           "N", "O", "P", "Q", "R", "S", "T", "U", "V", "W", "X", "Y", "Z">>

Lower == <<"a", "b", "c", "d", "e", "f", "g", "h", "i", "j", "k", "l", "m",
           "n", "o", "p", "q", "r", "s", "t", "u", "v", "w", "x", "y", "z">>

\* str.lower() on one character
LowerChar(c) ==
  IF \E i \in 1..26 : Upper[i] = c
    THEN Lower[CHOOSE i \in 1..26 : Upper[i] = c]
    ELSE c

\* json.decoder.BACKSLASH: the character an escape \x stands for
\* (backspace has no TLA+ literal and is written "BS")
Unescape(c) ==
  CASE c = "\"" -> "\""
    [] c = "\\" -> "\\"
    [] c = "/"  -> "/"
    [] c = "b"  -> "BS"
    [] c = "f"  -> "\f"
    [] c = "n"  -> "\n"
    [] c = "r"  -> "\r"
    [] c = "t"  -> "\t"

EscapeChars == {"\"", "\\", "/", "b", "f", "n", "r", "t"}

(***************************************************************************)
(* str methods                                                             *)
(***************************************************************************)
\* the number of trailing / leading whitespace characters of s
RECURSIVE TrailWs(_, _)
TrailWs(s, n) ==
  IF n < Len(s) /\ s[Len(s) - n] \in PyWs THEN TrailWs(s, n + 1) ELSE n

RECURSIVE LeadWs(_, _)
LeadWs(s, n) ==
  IF n < Len(s) /\ s[n + 1] \in PyWs THEN LeadWs(s, n + 1) ELSE n

RStrip(s) == SubSeq(s, 1, Len(s) - TrailWs(s, 0))

LStrip(s) == SubSeq(s, LeadWs(s, 0) + 1, Len(s))

Strip(s) == LStrip(RStrip(s))

ToLower(s) == [i \in 1..Len(s) |-> LowerChar(s[i])]

\* s[i:i+n] == w
StartsWithAt(s, i, w) ==
  /\ i + Len(w) - 1 <= Len(s)
  /\ \A k \in 1..Len(w) : s[i + k - 1] = w[k]

\* w in s
Contains(s, w) == \E i \in 1..(Len(s) - Len(w) + 1) : StartsWithAt(s, i, w)

\* the concatenation of the sequences ss[i..j]
RECURSIVE FlattenRange(_, _, _)
FlattenRange(ss, i, j) ==
  IF i > j THEN <<>>
  ELSE IF i = j THEN ss[i]
  ELSE FlattenRange(ss, i, (i + j) \div 2) \o FlattenRange(ss, ((i + j) \div 2) + 1, j)

Flatten(ss) == FlattenRange(ss, 1, Len(ss))

(***************************************************************************)
(* Python objects                                                          *)
(***************************************************************************)
PyNone == [t |-> "none"]
PyBool(b) == [t |-> "bool", b |-> b]
PyInt(n) == [t |-> "int", n |-> n]
\* nan / inf / -inf
PySpecial(k) == [t |-> "special", k |-> k]
PyS(s) == [t |-> "str", s |-> s]
PyList(a) == [t |-> "list", a |-> a]
PyDict(keys, m) == [t |-> "dict", keys |-> keys, m |-> m]
EmptyDict == PyDict(<<>>, <<>>)

RECURSIVE Pow10(_)
Pow10(n) == IF n = 0 THEN 1 ELSE 10 * Pow10(n - 1)

\* canonical float: trailing zeros of the mantissa move into the exponent
RECURSIVE PyFloat(_, _, _)
PyFloat(neg, m, e) ==
  IF m = 0 THEN [t |-> "float", neg |-> neg, m |-> 0, e |-> 0]
  ELSE IF m % 10 = 0 THEN PyFloat(neg, m \div 10, e + 1)
  ELSE [t |-> "float", neg |-> neg, m |-> m, e |-> e]

\* d[k] = v
DictSet(d, k, v) ==
  IF k \in DOMAIN d.m
    THEN PyDict(d.keys, [d.m EXCEPT ![k] = v])
    ELSE PyDict(Append(d.keys, k), (k :> v) @@ d.m)

\* d.get(k, default)
DictGet(d, k, default) == IF k \in DOMAIN d.m THEN d.m[k] ELSE default

\* bool(x)
Truthy(x) ==
  CASE x.t = "none"    -> FALSE
    [] x.t = "bool"    -> x.b
    [] x.t = "int"     -> x.n # 0
    [] x.t = "float"   -> x.m # 0
    [] x.t = "special" -> TRUE
    [] x.t = "str"     -> x.s # <<>>
    [] x.t = "list"    -> x.a # <<>>
    [] x.t = "dict"    -> x.keys # <<>>

(***************************************************************************)
(* str(x), repr(x) and int(x)                                              *)
(***************************************************************************)
RECURSIVE NatToStr(_)
NatToStr(n) ==
  IF n < 10 THEN <<DigitChar[n + 1]>>
  ELSE Append(NatToStr(n \div 10), DigitChar[(n % 10) + 1])

IntToStr(n) == IF n < 0 THEN <<"-">> \o NatToStr(-n) ELSE NatToStr(n)

Zeros(n) == [i \in 1..n |-> "0"]

\* the digits D of a float laid out around the decimal point decpt
FloatDigits(D, decpt) ==
  IF decpt > -4 /\ decpt <= 16
    THEN IF decpt <= 0 THEN <<"0", ".">> \o Zeros(-decpt) \o D
         ELSE IF decpt >= Len(D) THEN D \o Zeros(decpt - Len(D)) \o <<".", "0">>
         ELSE SubSeq(D, 1, decpt) \o <<".">> \o SubSeq(D, decpt + 1, Len(D))
    ELSE <<D[1]>>
         \o (IF Len(D) > 1 THEN <<".">> \o SubSeq(D, 2, Len(D)) ELSE <<>>)
         \o (IF decpt < 1 THEN <<"e", "-">> ELSE <<"e", "+">>)
         \o (IF decpt - 1 < 10 /\ 1 - decpt < 10 THEN <<"0">> ELSE <<>>)
         \o NatToStr(IF decpt < 1 THEN 1 - decpt ELSE decpt - 1)

FloatSigned(neg, D, e) ==
  (IF neg THEN <<"-">> ELSE <<>>) \o FloatDigits(D, Len(D) + e)

\* float_repr_style 'short': positional for 1e-4 <= |x| < 1e16, else exponent
FloatToStr(x) == FloatSigned(x.neg, NatToStr(x.m), x.e)

\* repr of one character inside a str repr quoted with q
ReprChar(c, q) ==
  CASE c = "\\" -> <<"\\", "\\">>
    [] c = q    -> <<"\\", q>>
    [] c = "\n" -> <<"\\", "n">>
    [] c = "\t" -> <<"\\", "t">>
    [] c = "\r" -> <<"\\", "r">>
    [] c = "\f" -> <<"\\", "x", "0", "c">>
    [] c = "BS" -> <<"\\", "x", "0", "8">>
    [] OTHER    -> <<c>>

StrQuoted(s, q) ==
  <<q>> \o Flatten([i \in 1..Len(s) |-> ReprChar(s[i], q)]) \o <<q>>

\* repr(s) for a str: single quotes unless s holds ' and no "
StrRepr(s) ==
  StrQuoted(s, IF (\E i \in 1..Len(s) : s[i] = "'") /\ ~(\E i \in 1..Len(s) : s[i] = "\"")
                 THEN "\"" ELSE "'")

\* ", ".join(parts)
RECURSIVE JoinComma(_)
JoinComma(parts) ==
  IF parts = <<>> THEN <<>>
  ELSE IF Len(parts) = 1 THEN parts[1]
  ELSE parts[1] \o <<",", " ">> \o JoinComma(Tail(parts))

RECURSIVE PyRepr(_)
PyRepr(x) ==
  CASE x.t = "none"    -> <<"N", "o", "n", "e">>
    [] x.t = "bool"    -> IF x.b THEN <<"T", "r", "u", "e">> ELSE <<"F", "a", "l", "s", "e">>
    [] x.t = "int"     -> IntToStr(x.n)
    [] x.t = "float"   -> FloatToStr(x)
    [] x.t = "special" -> x.k
    [] x.t = "str"     -> StrRepr(x.s)
    [] x.t = "list"    ->
         <<"[">> \o JoinComma([i \in 1..Len(x.a) |-> PyRepr(x.a[i])]) \o <<"]">>
    [] x.t = "dict"    ->
         <<"{">>
         \o JoinComma([i \in 1..Len(x.keys) |->
                         StrRepr(x.keys[i]) \o <<":", " ">> \o PyRepr(x.m[x.keys[i]])])
         \o <<"}">>

\* str(x)
PyStr(x) == IF x.t = "str" THEN x.s ELSE PyRepr(x)

\* int() of a str: strip, optional sign, digits with single underscores between
RECURSIVE DigitsVal(_, _, _)
DigitsVal(s, i, acc) ==
  IF i > Len(s) THEN [ok |-> TRUE, n |-> acc]
  ELSE IF s[i] \in Digits THEN DigitsVal(s, i + 1, 10 * acc + DigitVal[s[i]])
  ELSE IF s[i] = "_" /\ i > 1 /\ i < Len(s) /\ s[i - 1] \in Digits /\ s[i + 1] \in Digits
    THEN DigitsVal(s, i + 1, acc)
  ELSE [ok |-> FALSE, n |-> 0]

IntSigned(body, neg, r) ==
  IF body = <<>> \/ ~r.ok THEN [ok |-> FALSE, n |-> 0]
  ELSE [ok |-> TRUE, n |-> IF neg THEN -r.n ELSE r.n]

IntOfBody(body, neg) == IntSigned(body, neg, DigitsVal(body, 1, 0))

IntOfStripped(s) ==
  IF s # <<>> /\ s[1] \in {"+", "-"} THEN IntOfBody(Tail(s), s[1] = "-")
  ELSE IntOfBody(s, FALSE)

IntOfStr(s0) == IntOfStripped(Strip(s0))

\* the integer part of the float m * 10^e
FloatTrunc(m, e) == IF e >= 0 THEN m * Pow10(e) ELSE m \div Pow10(-e)

\* int(x): ok = FALSE stands for TypeError / ValueError / OverflowError
PyIntOf(x) ==
  CASE x.t = "int"   -> [ok |-> TRUE, n |-> x.n]
    [] x.t = "bool"  -> [ok |-> TRUE, n |-> IF x.b THEN 1 ELSE 0]
    [] x.t = "float" ->
         [ok |-> TRUE, n |-> IF x.neg THEN -FloatTrunc(x.m, x.e) ELSE FloatTrunc(x.m, x.e)]
    [] x.t = "str"   -> IntOfStr(x.s)
    [] OTHER         -> [ok |-> FALSE, n |-> 0]

\* list(x): ok = FALSE stands for TypeError (x is not iterable)
PyListOf(x) ==
  CASE x.t = "list" -> [ok |-> TRUE, a |-> x.a]
    [] x.t = "str"  -> [ok |-> TRUE, a |-> [i \in 1..Len(x.s) |-> PyS(<<x.s[i]>>)]]
    [] x.t = "dict" -> [ok |-> TRUE, a |-> [i \in 1..Len(x.keys) |-> PyS(x.keys[i])]]
    [] OTHER        -> [ok |-> FALSE, a |-> <<>>]

(***************************************************************************)
(* json.loads: the scanner of json.decoder / json.scanner.                 *)
(* A scan returns [ok, v, i]: the object and the index after it;           *)
(* ok = FALSE stands for JSONDecodeError.                                  *)
(***************************************************************************)
PFail == [ok |-> FALSE, v |-> PyNone, i |-> 0]
POk(v, i) == [ok |-> TRUE, v |-> v, i |-> i]

RECURSIVE SkipWs(_, _)
SkipWs(s, i) == IF i <= Len(s) /\ s[i] \in JsonWs THEN SkipWs(s, i + 1) ELSE i

RECURSIVE DigitRun(_, _)
DigitRun(s, i) == IF i <= Len(s) /\ s[i] \in Digits THEN DigitRun(s, i + 1) ELSE i

\* the number written by the digits s[i..j-1]
RECURSIVE NatOf(_, _, _, _)
NatOf(s, i, j, acc) ==
  IF i >= j THEN acc ELSE NatOf(s, i + 1, j, 10 * acc + DigitVal[s[i]])

\* py_scanstring(s, i, strict=True), i the index after the opening quote.
\* An escape \uXXXX yields the one character written "U+xxxx".
RECURSIVE ScanString(_, _, _)
ScanString(s, i, acc) ==
  IF i > Len(s) THEN PFail
  ELSE IF s[i] = "\"" THEN POk(PyS(acc), i + 1)
  ELSE IF s[i] \in ControlChars THEN PFail
  ELSE IF s[i] # "\\" THEN ScanString(s, i + 1, Append(acc, s[i]))
  ELSE IF i + 1 > Len(s) THEN PFail
  ELSE IF s[i + 1] = "u" THEN
         IF i + 5 <= Len(s) /\ \A k \in 2..5 : s[i + k] \in HexDigits
           THEN ScanString(s, i + 6,
                  Append(acc, "U+" \o LowerChar(s[i + 2]) \o LowerChar(s[i + 3])
                                   \o LowerChar(s[i + 4]) \o LowerChar(s[i + 5])))
           ELSE PFail
  ELSE IF s[i + 1] \in EscapeChars
         THEN ScanString(s, i + 2, Append(acc, Unescape(s[i + 1])))
  ELSE PFail

\* float(): beyond the double range the value is inf or 0.0
NumFloat(f, neg, decpt, j3) ==
  IF f.m # 0 /\ decpt > 309
    THEN POk(PySpecial(IF neg THEN <<"-", "i", "n", "f">> ELSE <<"i", "n", "f">>), j3)
  ELSE IF f.m # 0 /\ decpt < -323 THEN POk(PyFloat(neg, 0, 0), j3)
  ELSE POk(f, j3)

NumRanged(f, neg, j3) == NumFloat(f, neg, Len(NatToStr(f.m)) + f.e, j3)

\* the value of integer part, fraction digits s[f1..f2-1] and exponent
NumValue(s, neg, intpart, f1, f2, exp, j3) ==
  IF f1 = f2 /\ exp.none THEN POk(PyInt(IF neg THEN -intpart ELSE intpart), j3)
  ELSE NumRanged(PyFloat(neg, intpart * Pow10(f2 - f1) + NatOf(s, f1, f2, 0),
                         exp.n - (f2 - f1)),
                 neg, j3)

\* the exponent digits s[k0..j3-1], if there is one
NumExpDigits(s, neg, intpart, f1, f2, expneg, k0, j3) ==
  IF j3 = k0 THEN NumValue(s, neg, intpart, f1, f2, [none |-> TRUE, n |-> 0], f2)
  ELSE NumValue(s, neg, intpart, f1, f2,
                [none |-> FALSE,
                 n |-> IF expneg THEN -NatOf(s, k0, j3, 0) ELSE NatOf(s, k0, j3, 0)],
                j3)

NumExpAt(s, neg, intpart, f1, f2, expneg, k0) ==
  NumExpDigits(s, neg, intpart, f1, f2, expneg, k0, DigitRun(s, k0))

\* ([eE][-+]?\d+)? matched at j2
NumExp(s, neg, intpart, f1, f2, j2) ==
  IF ~(j2 <= Len(s) /\ s[j2] \in {"e", "E"})
    THEN NumValue(s, neg, intpart, f1, f2, [none |-> TRUE, n |-> 0], j2)
  ELSE IF j2 + 1 <= Len(s) /\ s[j2 + 1] \in {"+", "-"}
    THEN NumExpAt(s, neg, intpart, f1, f2, s[j2 + 1] = "-", j2 + 2)
  ELSE NumExpAt(s, neg, intpart, f1, f2, FALSE, j2 + 1)

NumFracTo(s, neg, intpart, f1, f2) == NumExp(s, neg, intpart, f1, f2, f2)

\* (\.\d+)? matched at j1
NumFrac(s, neg, intpart, j1) ==
  IF j1 + 1 <= Len(s) /\ s[j1] = "." /\ s[j1 + 1] \in Digits
    THEN NumFracTo(s, neg, intpart, j1 + 1, DigitRun(s, j1 + 1))
    ELSE NumExp(s, neg, intpart, j1, j1, j1)

NumIntTo(s, neg, j0, j1) == NumFrac(s, neg, NatOf(s, j0, j1, 0), j1)

\* (?:0|[1-9]\d*) matched at j0
NumInt(s, neg, j0) ==
  IF ~(j0 <= Len(s) /\ s[j0] \in Digits) THEN PFail
  ELSE NumIntTo(s, neg, j0, IF s[j0] = "0" THEN j0 + 1 ELSE DigitRun(s, j0))

\* NUMBER_RE = (-?(?:0|[1-9]\d*))(\.\d+)?([eE][-+]?\d+)? matched at i
ScanNumber(s, i) == IF s[i] = "-" THEN NumInt(s, TRUE, i + 1) ELSE NumInt(s, FALSE, i)

RECURSIVE ScanOnce(_, _)
RECURSIVE ObjectPairs(_, _, _)
RECURSIVE ArrayItems(_, _, _)

\* after a value: the closing brace, or a comma and the next key
PairNext(s, d2, e) ==
  IF e > Len(s) THEN PFail
  ELSE IF s[e] = "}" THEN POk(d2, e + 1)
  ELSE IF s[e] # "," THEN PFail
  ELSE IF SkipWs(s, e + 1) > Len(s) \/ s[SkipWs(s, e + 1)] # "\"" THEN PFail
  ELSE ObjectPairs(s, SkipWs(s, e + 1) + 1, d2)

PairValue(s, d, key, v) ==
  IF ~v.ok THEN PFail ELSE PairNext(s, DictSet(d, key, v.v), SkipWs(s, v.i))

PairColon(s, d, key, c) ==
  IF c > Len(s) \/ s[c] # ":" THEN PFail
  ELSE PairValue(s, d, key, ScanOnce(s, SkipWs(s, c + 1)))

PairKey(s, d, k) == IF ~k.ok THEN PFail ELSE PairColon(s, d, k.v.s, SkipWs(s, k.i))

\* the loop of JSONObject, i the index after the opening quote of a key
ObjectPairs(s, i, d) == PairKey(s, d, ScanString(s, i, <<>>))

ObjectAt(s, j) ==
  IF j > Len(s) THEN PFail
  ELSE IF s[j] = "}" THEN POk(EmptyDict, j + 1)
  ELSE IF s[j] # "\"" THEN PFail
  ELSE ObjectPairs(s, j + 1, EmptyDict)

\* JSONObject, i the index after the opening brace
JSONObject(s, i) == ObjectAt(s, SkipWs(s, i))

\* after an item: the closing bracket, or a comma and the next item
ItemNext(s, a2, e) ==
  IF e > Len(s) THEN PFail
  ELSE IF s[e] = "]" THEN POk(PyList(a2), e + 1)
  ELSE IF s[e] # "," THEN PFail
  ELSE ArrayItems(s, SkipWs(s, e + 1), a2)

ItemValue(s, a, v) ==
  IF ~v.ok THEN PFail ELSE ItemNext(s, Append(a, v.v), SkipWs(s, v.i))

\* the loop of JSONArray, i the index of the next value
ArrayItems(s, i, a) == ItemValue(s, a, ScanOnce(s, i))

ArrayAt(s, j) ==
  IF j > Len(s) THEN PFail
  ELSE IF s[j] = "]" THEN POk(PyList(<<>>), j + 1)
  ELSE ArrayItems(s, j, <<>>)

\* JSONArray, i the index after the opening bracket
JSONArray(s, i) == ArrayAt(s, SkipWs(s, i))

\* match_number, then the constants NaN, Infinity and -Infinity
NumberOrConstant(s, i, r) ==
  IF r.ok THEN r
  ELSE IF StartsWithAt(s, i, <<"N", "a", "N">>)
    THEN POk(PySpecial(<<"n", "a", "n">>), i + 3)
  ELSE IF StartsWithAt(s, i, <<"I", "n", "f", "i", "n", "i", "t", "y">>)
    THEN POk(PySpecial(<<"i", "n", "f">>), i + 8)
  ELSE IF StartsWithAt(s, i, <<"-", "I", "n", "f", "i", "n", "i", "t", "y">>)
    THEN POk(PySpecial(<<"-", "i", "n", "f">>), i + 9)
  ELSE PFail

\* scan_once(s, i)
ScanOnce(s, i) ==
  IF i > Len(s) THEN PFail
  ELSE IF s[i] = "\"" THEN ScanString(s, i + 1, <<>>)
  ELSE IF s[i] = "{" THEN JSONObject(s, i + 1)
  ELSE IF s[i] = "[" THEN JSONArray(s, i + 1)
  ELSE IF StartsWithAt(s, i, <<"n", "u", "l", "l">>) THEN POk(PyNone, i + 4)
  ELSE IF StartsWithAt(s, i, <<"t", "r", "u", "e">>) THEN POk(PyBool(TRUE), i + 4)
  ELSE IF StartsWithAt(s, i, <<"f", "a", "l", "s", "e">>) THEN POk(PyBool(FALSE), i + 5)
  ELSE NumberOrConstant(s, i, ScanNumber(s, i))

LoadsEnd(s, r) ==
  IF r.ok /\ SkipWs(s, r.i) = Len(s) + 1
    THEN [ok |-> TRUE, v |-> r.v]
    ELSE [ok |-> FALSE, v |-> PyNone]

\* json.loads(s): one value between optional whitespace, nothing after it
Loads(s) == LoadsEnd(s, ScanOnce(s, SkipWs(s, 1)))

(***************************************************************************)
(* secret_helper.py: constants                                             *)
(***************************************************************************)
\* the keys of the result schema
K_assistant_message == <<"a", "s", "s", "i", "s", "t", "a", "n", "t", "_", "m", "e", "s", "s", "a", "g", "e">>
K_song == <<"s", "o", "n", "g">>
K_title == <<"t", "i", "t", "l", "e">>
K_voice == <<"v", "o", "i", "c", "e">>
K_genre == <<"g", "e", "n", "r", "e">>
K_bpm == <<"b", "p", "m">>
K_mood_tags == <<"m", "o", "o", "d", "_", "t", "a", "g", "s">>
K_sound_description == <<"s", "o", "u", "n", "d", "_", "d", "e", "s", "c", "r", "i", "p", "t", "i", "o", "n">>
K_lyrics == <<"l", "y", "r", "i", "c", "s">>
K_structure == <<"s", "t", "r", "u", "c", "t", "u", "r", "e">>
K_text == <<"t", "e", "x", "t">>
K_production_notes == <<"p", "r", "o", "d", "u", "c", "t", "i", "o", "n", "_", "n", "o", "t", "e", "s">>
K_arrangement == <<"a", "r", "r", "a", "n", "g", "e", "m", "e", "n", "t">>
K_mix_notes == <<"m", "i", "x", "_", "n", "o", "t", "e", "s">>
K_need_clarification == <<"n", "e", "e", "d", "_", "c", "l", "a", "r", "i", "f", "i", "c", "a", "t", "i", "o", "n">>
K_clarifying_question == <<"c", "l", "a", "r", "i", "f", "y", "i", "n", "g", "_", "q", "u", "e", "s", "t", "i", "o", "n">>

\* str literals of the defaults
S_neutral == <<"n", "e", "u", "t", "r", "a", "l">>
S_pop == <<"p", "o", "p">>
DefaultStructure ==
  <<<<"V", "e", "r", "s", "e", " ", "1">>,
    <<"C", "h", "o", "r", "u", "s">>,
    <<"V", "e", "r", "s", "e", " ", "2">>,
    <<"C", "h", "o", "r", "u", "s">>,
    <<"B", "r", "i", "d", "g", "e">>,
    <<"C", "h", "o", "r", "u", "s">>>>

BPM_DEFAULTS ==
  (<<"b", "o", "o", "m", "-", "b", "a", "p">> :> 90)
  @@ (<<"t", "r", "a", "p">> :> 145)
  @@ (<<"d", "r", "i", "l", "l">> :> 145)
  @@ (<<"l", "o", "-", "f", "i">> :> 80)
  @@ (<<"r", "e", "g", "g", "a", "e", "t", "o", "n">> :> 92)
  @@ (<<"s", "a", "l", "s", "a">> :> 180)
  @@ (<<"b", "a", "c", "h", "a", "t", "a">> :> 126)
  @@ (<<"m", "e", "r", "e", "n", "g", "u", "e">> :> 158)
  @@ (<<"c", "u", "m", "b", "i", "a">> :> 100)
  @@ (<<"l", "a", "t", "i", "n", " ", "p", "o", "p">> :> 110)
  @@ (<<"p", "o", "p">> :> 120)
  @@ (<<"r", "o", "c", "k">> :> 130)
  @@ (<<"i", "n", "d", "i", "e">> :> 120)
  @@ (<<"p", "u", "n", "k">> :> 168)
  @@ (<<"m", "e", "t", "a", "l">> :> 155)
  @@ (<<"a", "l", "t", "e", "r", "n", "a", "t", "i", "v", "e">> :> 125)
  @@ (<<"e", "l", "e", "c", "t", "r", "o", "n", "i", "c">> :> 128)
  @@ (<<"h", "o", "u", "s", "e">> :> 128)
  @@ (<<"t", "e", "c", "h", "n", "o">> :> 138)
  @@ (<<"d", "u", "b", "s", "t", "e", "p">> :> 140)
  @@ (<<"d", "r", "u", "m", " ", "&", " ", "b", "a", "s", "s">> :> 174)
  @@ (<<"s", "y", "n", "t", "h", "w", "a", "v", "e">> :> 110)
  @@ (<<"a", "m", "b", "i", "e", "n", "t">> :> 70)
  @@ (<<"r", "&", "b">> :> 90)
  @@ (<<"s", "o", "u", "l">> :> 85)
  @@ (<<"f", "u", "n", "k">> :> 110)
  @@ (<<"b", "l", "u", "e", "s">> :> 75)
  @@ (<<"g", "o", "s", "p", "e", "l">> :> 90)
  @@ (<<"j", "a", "z", "z">> :> 100)
  @@ (<<"c", "l", "a", "s", "s", "i", "c", "a", "l">> :> 80)
  @@ (<<"r", "e", "g", "g", "a", "e">> :> 76)
  @@ (<<"d", "a", "n", "c", "e", "h", "a", "l", "l">> :> 90)
  @@ (<<"a", "f", "r", "o", "b", "e", "a", "t", "s">> :> 102)
  @@ (<<"b", "o", "s", "s", "a", " ", "n", "o", "v", "a">> :> 128)
  @@ (<<"f", "o", "l", "k">> :> 90)
  @@ (<<"c", "o", "u", "n", "t", "r", "y">> :> 100)
  @@ (<<"k", "-", "p", "o", "p">> :> 120)
  @@ (<<"d", "i", "s", "c", "o">> :> 120)

_PLACEHOLDERS ==
  { <<"s", "t", "r", "i", "n", "g">>,
    <<"s", "h", "o", "r", "t", " ", "d", "e", "s", "c", "r", "i", "p", "t", "i", "o", "n", " ", "o", "f", " ", "s", "o", "n", "g">>,
    <<"s", "o", "n", "g", " ", "t", "i", "t", "l", "e">>,
    <<"f", "u", "l", "l", " ", "l", "y", "r", "i", "c", "s", " ", "h", "e", "r", "e">>,
    <<"d", "e", "s", "c", "r", "i", "b", "e", " ", "t", "h", "e", " ", "s", "o", "u", "n", "d", "/", "b", "e", "a", "t">>,
    <<"a", "r", "r", "a", "n", "g", "e", "m", "e", "n", "t", " ", "n", "o", "t", "e", "s">>,
    <<"m", "i", "x", " ", "n", "o", "t", "e", "s">> }

BANNED ==
  << <<"s", "u", "n", " ", "s", "e", "t", "s">>,
     <<"b", "r", "o", "k", "e", "n", " ", "h", "e", "a", "r", "t">>,
     <<"t", "e", "a", "r", "s", " ", "f", "a", "l", "l">>,
     <<"g", "h", "o", "s", "t", "s", " ", "o", "f", " ", "m", "e", "m", "o", "r", "i", "e", "s">>,
     <<"e", "m", "p", "t", "y", " ", "i", "n", "s", "i", "d", "e">>,
     <<"w", "i", "t", "h", "o", "u", "t", " ", "y", "o", "u">>,
     <<"p", "a", "i", "n", " ", "r", "e", "m", "a", "i", "n", "s">>,
     <<"m", "y", " ", "w", "o", "r", "l", "d", " ", "i", "s", " ", "c", "o", "l", "d">> >>

\* a clarifying question that is empty
EmptyQuestion == <<>>

\* the question of the safe fallback:
\*   I had trouble formatting my response. Could you rephrase your request?
FallbackQuestion ==
  <<"I", " ", "h", "a", "d", " ", "t", "r", "o", "u", "b", "l", "e", " ", "f", "o", "r",
    "m", "a", "t", "t", "i", "n", "g", " ", "m", "y", " ", "r", "e", "s", "p", "o", "n",
    "s", "e", ".", " ", "C", "o", "u", "l", "d", " ", "y", "o", "u", " ", "r", "e", "p",
    "h", "r", "a", "s", "e", " ", "y", "o", "u", "r", " ", "r", "e", "q", "u", "e", "s",
    "t", "?">>

(***************************************************************************)
(* _close_truncated_json                                                   *)
(***************************************************************************)
\* one iteration of `for ch in s` on the scanner state
\* st = [in_string, escape, stack]
CloseStep(st, ch) ==
  IF st.escape THEN [st EXCEPT !.escape = FALSE]
  ELSE IF ch = "\\" /\ st.in_string THEN [st EXCEPT !.escape = TRUE]
  ELSE IF ch = "\"" THEN [st EXCEPT !.in_string = ~st.in_string]
  ELSE IF ~st.in_string THEN
         IF ch \in {"{", "["} THEN [st EXCEPT !.stack = Append(st.stack, ch)]
         ELSE IF ch \in {"}", "]"} /\ st.stack # <<>>
           THEN [st EXCEPT !.stack = SubSeq(st.stack, 1, Len(st.stack) - 1)]
         ELSE st
  ELSE st

\* the scanner state after the characters s[i..j], scanned left to right
\* (the range is split in halves to keep the evaluation shallow)
RECURSIVE CloseScan(_, _, _, _)
CloseScan(s, i, j, st) ==
  IF i > j THEN st
  ELSE IF i = j THEN CloseStep(st, s[i])
  ELSE LET left == CloseScan(s, i, (i + j) \div 2, st)
       IN  \* the test evaluates the left half before the right half starts
           IF left.escape \in BOOLEAN
             THEN CloseScan(s, ((i + j) \div 2) + 1, j, left) ELSE left

CloseScanAll(s) ==
  CloseScan(s, 1, Len(s), [in_string |-> FALSE, escape |-> FALSE, stack |-> <<>>])

\* closing tokens in the order the openers were met
ClosersInOpeningOrder(stack) ==
  [i \in 1..Len(stack) |-> IF stack[i] = "{" THEN "}" ELSE "]"]

\* the closing tokens for reversed(stack)
Closers(stack) ==
  [i \in 1..Len(stack) |->
     IF stack[Len(stack) + 1 - i] = "{" THEN "}" ELSE "]"]

\* s + ('"' if in_string else "") + the closers
CloseWith(s, st) ==
  IF s = <<>> THEN s
  ELSE s \o (IF st.in_string THEN <<"\"">> ELSE <<>>) \o Closers(st.stack)

CloseStripped(s) == CloseWith(s, CloseScanAll(s))

_close_truncated_json(raw) == CloseStripped(RStrip(raw))

(***************************************************************************)
(* _normalize                                                              *)
(***************************************************************************)
\* "" if the stripped text is a schema placeholder
CleanStripped(v) == IF ToLower(v) \in _PLACEHOLDERS THEN <<>> ELSE v

\* _clean(val)
_clean(val) == CleanStripped(Strip(PyStr(val)))

\* the returned dict, built from the coerced parts
NormalizedDict(d, song, lyr, prod, genre, bpm, tags, struc) ==
  PyDict(<<K_assistant_message, K_song, K_lyrics, K_production_notes,
           K_need_clarification, K_clarifying_question>>,
    (K_assistant_message :> PyS(_clean(DictGet(d, K_assistant_message, PyS(<<>>)))))
    @@ (K_song :>
          PyDict(<<K_title, K_voice, K_genre, K_bpm, K_mood_tags, K_sound_description>>,
            (K_title :> PyS(_clean(DictGet(song, K_title, PyS(<<>>)))))
            @@ (K_voice :> PyS(PyStr(DictGet(song, K_voice, PyS(S_neutral)))))
            @@ (K_genre :> PyS(genre))
            @@ (K_bpm :> PyInt(bpm))
            @@ (K_mood_tags :> PyList(tags))
            @@ (K_sound_description :>
                  PyS(_clean(DictGet(song, K_sound_description, PyS(<<>>)))))))
    @@ (K_lyrics :>
          PyDict(<<K_structure, K_text>>,
            (K_structure :> PyList(struc))
            @@ (K_text :> PyS(_clean(DictGet(lyr, K_text, PyS(<<>>)))))))
    @@ (K_production_notes :>
          PyDict(<<K_arrangement, K_mix_notes>>,
            (K_arrangement :> PyS(_clean(DictGet(prod, K_arrangement, PyS(<<>>)))))
            @@ (K_mix_notes :> PyS(_clean(DictGet(prod, K_mix_notes, PyS(<<>>)))))))
    @@ (K_need_clarification :>
          PyBool(Truthy(DictGet(d, K_need_clarification, PyBool(FALSE)))))
    @@ (K_clarifying_question :>
          PyS(PyStr(DictGet(d, K_clarifying_question, PyS(<<>>))))))

\* int(...) and the two list(...) raise, or the dict is returned
NormalizeCoerced(d, song, lyr, prod, genre, bpm, tags, struc) ==
  IF bpm.ok /\ tags.ok /\ struc.ok
    THEN [ok |-> TRUE,
          v  |-> NormalizedDict(d, song, lyr, prod, genre, bpm.n, tags.a, struc.a)]
    ELSE [ok |-> FALSE, v |-> PyNone]

\* song.get("bpm") or BPM_DEFAULTS.get(genre, 100)
BpmOrDefault(bpmIn, genre) ==
  IF Truthy(bpmIn) THEN bpmIn
  ELSE PyInt(IF genre \in DOMAIN BPM_DEFAULTS THEN BPM_DEFAULTS[genre] ELSE 100)

NormalizeGenre(d, song, lyr, prod, genre) ==
  NormalizeCoerced(d, song, lyr, prod, genre,
    PyIntOf(BpmOrDefault(DictGet(song, K_bpm, PyNone), genre)),
    PyListOf(DictGet(song, K_mood_tags, PyList(<<>>))),
    PyListOf(DictGet(lyr, K_structure,
               PyList([i \in 1..Len(DefaultStructure) |-> PyS(DefaultStructure[i])]))))

\* song, lyr and prod take .get calls: each has to be a dict
NormalizeParts(d, song, lyr, prod) ==
  IF song.t = "dict" /\ lyr.t = "dict" /\ prod.t = "dict"
    THEN NormalizeGenre(d, song, lyr, prod, PyStr(DictGet(song, K_genre, PyS(S_pop))))
    ELSE [ok |-> FALSE, v |-> PyNone]

\* ok = FALSE stands for the exception _normalize raises (AttributeError on a
\* .get of a non-dict, ValueError / TypeError of int(), TypeError of list())
_normalize(d) ==
  IF d.t = "dict"
    THEN NormalizeParts(d, DictGet(d, K_song, EmptyDict), DictGet(d, K_lyrics, EmptyDict),
                        DictGet(d, K_production_notes, EmptyDict))
    ELSE [ok |-> FALSE, v |-> PyNone]

(***************************************************************************)
(* _FALLBACK and the safe fallback of _parse                               *)
(***************************************************************************)
_FALLBACK ==
  PyDict(<<K_assistant_message, K_song, K_lyrics, K_production_notes,
           K_need_clarification, K_clarifying_question>>,
    (K_assistant_message :> PyS(<<>>))
    @@ (K_song :>
          PyDict(<<K_title, K_voice, K_genre, K_bpm, K_mood_tags, K_sound_description>>,
            (K_title :> PyS(<<>>)) @@ (K_voice :> PyS(S_neutral))
            @@ (K_genre :> PyS(S_pop)) @@ (K_bpm :> PyInt(100))
            @@ (K_mood_tags :> PyList(<<>>)) @@ (K_sound_description :> PyS(<<>>))))
    @@ (K_lyrics :>
          PyDict(<<K_structure, K_text>>,
            (K_structure :>
               PyList([i \in 1..Len(DefaultStructure) |-> PyS(DefaultStructure[i])]))
            @@ (K_text :> PyS(<<>>))))
    @@ (K_production_notes :>
          PyDict(<<K_arrangement, K_mix_notes>>,
            (K_arrangement :> PyS(<<>>)) @@ (K_mix_notes :> PyS(<<>>))))
    @@ (K_need_clarification :> PyBool(FALSE))
    @@ (K_clarifying_question :> PyS(<<>>)))

\* a fallback that leaves need_clarification and clarifying_question as they are
FallbackUnmarked == _FALLBACK

\* fb = dict(_FALLBACK); fb["need_clarification"] = True; fb["clarifying_question"] = ...
SafeFallback ==
  DictSet(DictSet(_FALLBACK, K_need_clarification, PyBool(TRUE)),
          K_clarifying_question, PyS(FallbackQuestion))

(***************************************************************************)
(* Texts the model draws raw inputs and backend responses from             *)
(***************************************************************************)
\* the end-to-end object of the recovery tests (its \n are json escapes)
\*   {"assistant_message":"ok","song":{"title":"Night Drive","genre":"synthwave","bpm":110},"lyrics":{"text":"[Verse 1]\nfast cars\nneon bars"},"production_notes":{},"need_clarification":false}
NightDrive ==
  <<"{", "\"", "a", "s", "s", "i", "s", "t", "a", "n", "t", "_", "m", "e", "s", "s", "a", "g",
    "e", "\"", ":", "\"", "o", "k", "\"", ",", "\"", "s", "o", "n", "g", "\"", ":", "{", "\"",
    "t", "i", "t", "l", "e", "\"", ":", "\"", "N", "i", "g", "h", "t", " ", "D", "r", "i", "v",
    "e", "\"", ",", "\"", "g", "e", "n", "r", "e", "\"", ":", "\"", "s", "y", "n", "t", "h",
    "w", "a", "v", "e", "\"", ",", "\"", "b", "p", "m", "\"", ":", "1", "1", "0", "}", ",",
    "\"", "l", "y", "r", "i", "c", "s", "\"", ":", "{", "\"", "t", "e", "x", "t", "\"", ":",
    "\"", "[", "V", "e", "r", "s", "e", " ", "1", "]", "\\", "n", "f", "a", "s", "t", " ", "c",
    "a", "r", "s", "\\", "n", "n", "e", "o", "n", " ", "b", "a", "r", "s", "\"", "}", ",",
    "\"", "p", "r", "o", "d", "u", "c", "t", "i", "o", "n", "_", "n", "o", "t", "e", "s", "\"",
    ":", "{", "}", ",", "\"", "n", "e", "e", "d", "_", "c", "l", "a", "r", "i", "f", "i", "c",
    "a", "t", "i", "o", "n", "\"", ":", "f", "a", "l", "s", "e", "}">>

\* text that is no structured data and holds no brace
\*   not json at all
NotJson ==
  <<"n", "o", "t", " ", "j", "s", "o", "n", " ", "a", "t", " ", "a", "l", "l">>

\* asks for clarification without a question
\*   {"need_clarification":true}
DocClarify ==
  <<"{", "\"", "n", "e", "e", "d", "_", "c", "l", "a", "r", "i", "f", "i", "c", "a", "t", "i",
    "o", "n", "\"", ":", "t", "r", "u", "e", "}">>

\* a song that is not a map
\*   {"song":"x"}
DocSongNotMap ==
  <<"{", "\"", "s", "o", "n", "g", "\"", ":", "\"", "x", "\"", "}">>

\* a bpm that int() truncates to zero
\*   {"song":{"bpm":0.5}}
DocBpmHalf ==
  <<"{", "\"", "s", "o", "n", "g", "\"", ":", "{", "\"", "b", "p", "m", "\"", ":", "0", ".",
    "5", "}", "}">>

\* a bpm str that int() reads as zero
\*   {"song":{"bpm":"0","genre":"trap"}}
DocBpmZeroStr ==
  <<"{", "\"", "s", "o", "n", "g", "\"", ":", "{", "\"", "b", "p", "m", "\"", ":", "\"", "0",
    "\"", ",", "\"", "g", "e", "n", "r", "e", "\"", ":", "\"", "t", "r", "a", "p", "\"", "}",
    "}">>

\* a bpm that is not numeric
\*   {"song":{"bpm":"fast"}}
DocBpmWord ==
  <<"{", "\"", "s", "o", "n", "g", "\"", ":", "{", "\"", "b", "p", "m", "\"", ":", "\"", "f",
    "a", "s", "t", "\"", "}", "}">>

\* mood_tags / structure that are no sequence
\*   {"song":{"mood_tags":5},"lyrics":{"structure":null}}
DocTagsNotSeq ==
  <<"{", "\"", "s", "o", "n", "g", "\"", ":", "{", "\"", "m", "o", "o", "d", "_", "t", "a",
    "g", "s", "\"", ":", "5", "}", ",", "\"", "l", "y", "r", "i", "c", "s", "\"", ":", "{",
    "\"", "s", "t", "r", "u", "c", "t", "u", "r", "e", "\"", ":", "n", "u", "l", "l", "}", "}">>

\* every str field echoes a schema placeholder
\*   {"assistant_message":"String","song":{"title":" Song Title ","voice":"string","genre":"string","sound_description":"describe the sound/beat"},"lyrics":{"text":"full lyrics here"},"production_notes":{"arrangement":"arrangement notes","mix_notes":"Mix Notes"},"clarifying_question":"string"}
DocPlaceholders ==
  <<"{", "\"", "a", "s", "s", "i", "s", "t", "a", "n", "t", "_", "m", "e", "s", "s", "a", "g",
    "e", "\"", ":", "\"", "S", "t", "r", "i", "n", "g", "\"", ",", "\"", "s", "o", "n", "g",
    "\"", ":", "{", "\"", "t", "i", "t", "l", "e", "\"", ":", "\"", " ", "S", "o", "n", "g",
    " ", "T", "i", "t", "l", "e", " ", "\"", ",", "\"", "v", "o", "i", "c", "e", "\"", ":",
    "\"", "s", "t", "r", "i", "n", "g", "\"", ",", "\"", "g", "e", "n", "r", "e", "\"", ":",
    "\"", "s", "t", "r", "i", "n", "g", "\"", ",", "\"", "s", "o", "u", "n", "d", "_", "d",
    "e", "s", "c", "r", "i", "p", "t", "i", "o", "n", "\"", ":", "\"", "d", "e", "s", "c", "r",
    "i", "b", "e", " ", "t", "h", "e", " ", "s", "o", "u", "n", "d", "/", "b", "e", "a", "t",
    "\"", "}", ",", "\"", "l", "y", "r", "i", "c", "s", "\"", ":", "{", "\"", "t", "e", "x",
    "t", "\"", ":", "\"", "f", "u", "l", "l", " ", "l", "y", "r", "i", "c", "s", " ", "h", "e",
    "r", "e", "\"", "}", ",", "\"", "p", "r", "o", "d", "u", "c", "t", "i", "o", "n", "_", "n",
    "o", "t", "e", "s", "\"", ":", "{", "\"", "a", "r", "r", "a", "n", "g", "e", "m", "e", "n",
    "t", "\"", ":", "\"", "a", "r", "r", "a", "n", "g", "e", "m", "e", "n", "t", " ", "n", "o",
    "t", "e", "s", "\"", ",", "\"", "m", "i", "x", "_", "n", "o", "t", "e", "s", "\"", ":",
    "\"", "M", "i", "x", " ", "N", "o", "t", "e", "s", "\"", "}", ",", "\"", "c", "l", "a",
    "r", "i", "f", "y", "i", "n", "g", "_", "q", "u", "e", "s", "t", "i", "o", "n", "\"", ":",
    "\"", "s", "t", "r", "i", "n", "g", "\"", "}">>

\* lyrics holding a banned phrase
\*   {"song":{"title":"Rain","bpm":0,"mood_tags":["dark"]},"lyrics":{"structure":["Hook"],"text":"My Broken Heart"}}
DocBanned ==
  <<"{", "\"", "s", "o", "n", "g", "\"", ":", "{", "\"", "t", "i", "t", "l", "e", "\"", ":",
    "\"", "R", "a", "i", "n", "\"", ",", "\"", "b", "p", "m", "\"", ":", "0", ",", "\"", "m",
    "o", "o", "d", "_", "t", "a", "g", "s", "\"", ":", "[", "\"", "d", "a", "r", "k", "\"",
    "]", "}", ",", "\"", "l", "y", "r", "i", "c", "s", "\"", ":", "{", "\"", "s", "t", "r",
    "u", "c", "t", "u", "r", "e", "\"", ":", "[", "\"", "H", "o", "o", "k", "\"", "]", ",",
    "\"", "t", "e", "x", "t", "\"", ":", "\"", "M", "y", " ", "B", "r", "o", "k", "e", "n",
    " ", "H", "e", "a", "r", "t", "\"", "}", "}">>

\* lyrics with no banned phrase
\*   {"song":{"title":"Rust"},"lyrics":{"text":"coffee rings on the map"},"need_clarification":false,"clarifying_question":""}
DocClean ==
  <<"{", "\"", "s", "o", "n", "g", "\"", ":", "{", "\"", "t", "i", "t", "l", "e", "\"", ":",
    "\"", "R", "u", "s", "t", "\"", "}", ",", "\"", "l", "y", "r", "i", "c", "s", "\"", ":",
    "{", "\"", "t", "e", "x", "t", "\"", ":", "\"", "c", "o", "f", "f", "e", "e", " ", "r",
    "i", "n", "g", "s", " ", "o", "n", " ", "t", "h", "e", " ", "m", "a", "p", "\"", "}", ",",
    "\"", "n", "e", "e", "d", "_", "c", "l", "a", "r", "i", "f", "i", "c", "a", "t", "i", "o",
    "n", "\"", ":", "f", "a", "l", "s", "e", ",", "\"", "c", "l", "a", "r", "i", "f", "y", "i",
    "n", "g", "_", "q", "u", "e", "s", "t", "i", "o", "n", "\"", ":", "\"", "\"", "}">>

\* a well-formed clarification
\*    {"need_clarification": true, "clarifying_question": "Which genre?"}\n
DocAsk ==
  <<" ", "{", "\"", "n", "e", "e", "d", "_", "c", "l", "a", "r", "i", "f", "i", "c", "a", "t",
    "i", "o", "n", "\"", ":", " ", "t", "r", "u", "e", ",", " ", "\"", "c", "l", "a", "r", "i",
    "f", "y", "i", "n", "g", "_", "q", "u", "e", "s", "t", "i", "o", "n", "\"", ":", " ", "\"",
    "W", "h", "i", "c", "h", " ", "g", "e", "n", "r", "e", "?", "\"", "}", "\n">>

\* valid json that is no map
\*   [1]
DocArray ==
  <<"[", "1", "]">>

\* leading prose before the structured block
Prose ==
  <<"S", "u", "r", "e", ":", " ">>

(***************************************************************************)
(* Bounds and input sets                                                   *)
(***************************************************************************)
\* longest raw text drawn from FuzzAlphabet
MaxFuzzLen == 3

FuzzAlphabet == {"{", "}", "[", "]", "\"", "\\", ":", "0"}

FuzzTexts == UNION {[1..n -> FuzzAlphabet] : n \in 0..MaxFuzzLen}

Prefixes(doc) == {SubSeq(doc, 1, n) : n \in 0..Len(doc)}

Documents ==
  {NightDrive, NotJson, DocClarify, DocSongNotMap, DocBpmHalf, DocBpmZeroStr, DocBpmWord,
   DocTagsNotSeq, DocPlaceholders, DocBanned, DocClean, DocAsk, DocArray}

\* the raw texts _parse is called with: every document, every truncation of
\* one, some of them behind leading prose, and every short text
RawInputs ==
  (UNION {Prefixes(doc) : doc \in Documents})
  \cup {Prose \o p : p \in Prefixes(DocClean) \cup Prefixes(DocAsk) \cup {DocSongNotMap}}
  \cup FuzzTexts

\* what one call of _call_ollama can do: raise (transport error, bad status,
\* no "response" key) or return the stripped response text
Raises == [raises |-> TRUE, text |-> <<>>]
Returns(text) == [raises |-> FALSE, text |-> Strip(text)]

ResponseTexts ==
  {NightDrive, NotJson, DocClarify, DocSongNotMap, DocBanned, DocClean, DocAsk, <<>>,
   SubSeq(DocClean, 1, Len(DocClean) - 2), Prose \o DocClean}

Backend == {Raises} \cup {Returns(text) : text \in ResponseTexts}

(***************************************************************************)
(* Reading a result                                                        *)
(***************************************************************************)
Song(r) == r.m[K_song]
Lyrics(r) == r.m[K_lyrics]
Production(r) == r.m[K_production_notes]
NeedClarification(r) == r.m[K_need_clarification].b
ClarifyingQuestion(r) == r.m[K_clarifying_question].s
LyricsText(r) == Lyrics(r).m[K_text].s

(***************************************************************************)
(* _parse: the strategies                                                  *)
(***************************************************************************)
\* _normalize(p) of a loaded object; a failed load stays a failure
NormalizeLoaded(p) == IF p.ok THEN _normalize(p.v) ELSE [ok |-> FALSE, v |-> PyNone]

\* try: return _normalize(json.loads(text)) / except Exception: pass
TryLoad(text) == NormalizeLoaded(Loads(text))

\* re.search(r"\{[\s\S]*", raw): the index of the first opening brace, or 0
FirstBrace(raw) ==
  IF \E i \in 1..Len(raw) : raw[i] = "{"
    THEN CHOOSE i \in 1..Len(raw) :
           raw[i] = "{" /\ \A j \in 1..(i - 1) : raw[j] # "{"
    ELSE 0

\* m.group()
Block(raw) == SubSeq(raw, FirstBrace(raw), Len(raw))

\* for candidate in (block, _close_truncated_json(block)): the first that loads
TryCandidates(first, block) ==
  IF first.ok THEN first ELSE TryLoad(_close_truncated_json(block))

TryBlock(block) == TryCandidates(TryLoad(block), block)

\* 3. the loop over (m.group(), _close_truncated_json(m.group()))
TryExtract(raw) ==
  IF FirstBrace(raw) = 0 THEN [ok |-> FALSE, v |-> PyNone] ELSE TryBlock(Block(raw))

\* 4. return _normalize(json.loads(_call_ollama(repair))) inside try / except
TryRepair(resp) ==
  IF resp.raises THEN [ok |-> FALSE, v |-> PyNone] ELSE TryLoad(resp.text)

Order == <<"direct", "close", "extract", "repair", "fallback">>

(***************************************************************************)
(* State                                                                   *)
(***************************************************************************)
VARIABLES
  pc,           \* position: idle, p1..p5 and ret inside _parse, lint, rewrite, done
  entry,        \* the function called from outside: parse, generate, normalize
  caller,       \* who called the running _parse: test, generate, lint
  raw,          \* the argument of the running _parse
  tried,        \* the strategies the running _parse has entered, in order
  ret,          \* the value the running _parse returns
  repairCalls,  \* repair backend calls issued by the running _parse
  repairResp,   \* what the repair call of the running _parse did
  calls,        \* backend calls issued since the outside call started
  firstRaw,     \* the argument of the first _parse of the outside call
  instrumental, \* ui_settings["instrumental_only"] of generate
  parsed,       \* the working result of generate / the argument of _lint
  normIn,       \* the argument of _normalize when it is called from outside
  outcome,      \* how the outside call ended: [raised, v]
  again         \* _normalize applied to the value _normalize returned: [ok, v]

\* the orchestrators of app.py
VARIABLES
  gen,          \* the running generator: none, helper (_helper_core), submit (on_submit)
  gpc,          \* its position
  req,          \* the arguments of on_submit: [music_only, custom]
  online,       \* _OL_ONLINE and _OL_MODEL, set once when app.py is loaded
  messages,     \* the transcript the generator works on
  session,      \* what the last yielded snapshot left with the caller:
                \* [messages, helper_song, audio]
  stage,        \* the stage the generator is at: helper, lyrics, music, vocals
  thread,       \* per stage, the thread of _run_bg: none, created, running, stored, dead
  result,       \* per stage, result[0]
  exc,          \* per stage, exc[0]
  writes,       \* per stage, how often each slot has been assigned: [res, exc]
  polls,        \* the waits of the current polling loop
  trace,        \* what the running generator has done so far, in order
  lyrics_text,  \* lyrics_text of on_submit
  saved,        \* what mixer has written: none, instrumental, song
  mobj,         \* the list object `messages` names: 0 the caller's, then 1, 2, ..
  yielded,      \* the transcripts handed out by yield: [obj, seen]
  unpacked,     \* instrumental, instr_sr and vocals, vocal_sr of on_submit
  mixed,        \* the arguments mixer was called with
  ended,        \* how the generator ended: no, returned, raised, abandoned
  requests      \* the generators started so far

coreVars ==
  <<pc, entry, caller, raw, tried, ret, repairCalls, repairResp, calls, firstRaw,
    instrumental, parsed, normIn, outcome, again>>

appVars ==
  <<gen, gpc, req, online, messages, session, stage, thread, result, exc, writes, polls,
    trace, lyrics_text, saved, mobj, yielded, unpacked, mixed, ended, requests>>

\* the collaborators lyrics_gen.py and music_gen.py
VARIABLES
  LYRICS_BACKEND,      \* config.LYRICS_BACKEND
  lpc,                 \* position of the running lyrics_gen.generate
  lcalled,             \* the backends it has called, in order
  lret,                \* how it ended: [raised, v]
  _model,              \* music_gen._model: None or the name of the model it holds
  _processor,          \* music_gen._processor: None or the name of its model
  _loaded_model_name,  \* music_gen._loaded_model_name
  mpc,                 \* per worker, the position inside music_gen.generate
  model_name,          \* per worker, the local model_name of load
  used,                \* per worker, what its generation ran with: [processor, model]
  gret,                \* per worker, how music_gen.generate ended
  runs                 \* calls of music_gen.generate so far

libVars ==
  <<LYRICS_BACKEND, lpc, lcalled, lret, _model, _processor, _loaded_model_name, mpc,
    model_name, used, gret, runs>>

Workers == {1, 2}
NoLyrics == [raised |-> FALSE, v |-> "None"]
NotUsed == [processor |-> "None", model |-> "None"]

\* lyrics_gen and music_gen imported, nothing called yet
LibIdle ==
  /\ lpc = "idle"
  /\ lcalled = <<>>
  /\ lret = NoLyrics
  /\ _model = "None"
  /\ _processor = "None"
  /\ _loaded_model_name = "None"
  /\ mpc = [w \in Workers |-> "idle"]
  /\ model_name = [w \in Workers |-> "None"]
  /\ used = [w \in Workers |-> NotUsed]
  /\ gret = [w \in Workers |-> "none"]
  /\ runs = 0

vars == <<coreVars, appVars, libVars>>

NoResp == [raises |-> FALSE, text |-> <<>>]
NoOutcome == [raised |-> FALSE, v |-> PyNone]
NoAgain == [ok |-> FALSE, v |-> PyNone]

Init ==
  /\ pc = "idle"
  /\ entry = "none"
  /\ caller = "none"
  /\ raw = <<>>
  /\ tried = <<>>
  /\ ret = PyNone
  /\ repairCalls = 0
  /\ repairResp = NoResp
  /\ calls = 0
  /\ firstRaw = <<>>
  /\ instrumental = FALSE
  /\ parsed = PyNone
  /\ normIn = PyNone
  /\ outcome = NoOutcome
  /\ again = NoAgain
  /\ gen = "none"
  /\ gpc = "idle"
  /\ req = [music_only |-> FALSE, custom |-> <<>>]
  /\ online = FALSE
  /\ messages = <<>>
  /\ session = [messages |-> <<>>, helper_song |-> PyNone, audio |-> "none"]
  /\ stage = "none"
  /\ thread = [s \in {"helper", "lyrics", "music", "vocals"} |-> "none"]
  /\ result = [s \in {"helper", "lyrics", "music", "vocals"} |-> PyNone]
  /\ exc = [s \in {"helper", "lyrics", "music", "vocals"} |-> PyNone]
  /\ writes = [s \in {"helper", "lyrics", "music", "vocals"} |-> [res |-> 0, exc |-> 0]]
  /\ polls = 0
  /\ trace = <<>>
  /\ lyrics_text = <<>>
  /\ saved = "none"
  /\ mobj = 0
  /\ yielded = <<>>
  /\ unpacked = [instrumental |-> PyNone, vocals |-> PyNone]
  /\ mixed = <<>>
  /\ ended = "no"
  /\ requests = 0
  /\ LYRICS_BACKEND = "ollama"
  /\ LibIdle

\* the entry of _parse(text) called by who
EnterParse(who, text) ==
  /\ pc' = "p1"
  /\ caller' = who
  /\ raw' = text
  /\ tried' = <<>>
  /\ ret' = PyNone
  /\ repairCalls' = 0
  /\ repairResp' = NoResp

(***************************************************************************)
(* Calls from outside                                                      *)
(***************************************************************************)
\* _parse(text) called directly
CallParse ==
  /\ pc = "idle"
  /\ \E text \in RawInputs :
       /\ EnterParse("test", text)
       /\ firstRaw' = text
  /\ entry' = "parse"
  /\ UNCHANGED <<calls, instrumental, parsed, normIn, outcome, again>>
  /\ UNCHANGED appVars
  /\ UNCHANGED libVars

\* generate(...) up to its first _parse: raw = _call_ollama(user_msg, system=sys_p)
CallGenerate ==
  /\ pc = "idle"
  /\ entry' = "generate"
  /\ calls' = 1
  /\ \E resp \in Backend, instr \in BOOLEAN :
       /\ instrumental' = instr
       /\ firstRaw' = resp.text
       /\ IF resp.raises
            THEN /\ pc' = "done"
                 /\ outcome' = [raised |-> TRUE, v |-> PyNone]
                 /\ UNCHANGED <<caller, raw, tried, ret, repairCalls, repairResp>>
            ELSE /\ EnterParse("generate", resp.text)
                 /\ UNCHANGED outcome
  /\ UNCHANGED <<parsed, normIn, again>>
  /\ UNCHANGED appVars
  /\ UNCHANGED libVars

\* the start of a direct call _normalize(d), d the object loaded from text
NormalizeCall(text, d, r) ==
  /\ firstRaw' = text
  /\ normIn' = d
  /\ outcome' = [raised |-> ~r.ok, v |-> r.v]

NormalizeObject(text, p) == p.ok /\ NormalizeCall(text, p.v, _normalize(p.v))

\* _normalize(d) called directly with a parsed text
CallNormalize ==
  /\ pc = "idle"
  /\ \E text \in RawInputs : NormalizeObject(text, Loads(text))
  /\ entry' = "normalize"
  /\ pc' = "normalized"
  /\ UNCHANGED <<caller, raw, tried, ret, repairCalls, repairResp, calls, instrumental,
                 parsed, again>>
  /\ UNCHANGED appVars
  /\ UNCHANGED libVars

\* _normalize applied to the result of the first call
NormalizeAgain ==
  /\ pc = "normalized"
  /\ ~outcome.raised
  /\ again' = _normalize(outcome.v)
  /\ pc' = "done"
  /\ UNCHANGED <<entry, caller, raw, tried, ret, repairCalls, repairResp, calls, firstRaw,
                 instrumental, parsed, normIn, outcome>>
  /\ UNCHANGED appVars
  /\ UNCHANGED libVars

(***************************************************************************)
(* _parse                                                                  *)
(***************************************************************************)
\* a strategy that ends with result r: return on success, else go on to next
Strategy(name, r, next) ==
  /\ tried' = Append(tried, name)
  /\ IF r.ok THEN pc' = "ret" /\ ret' = r.v
             ELSE pc' = next /\ ret' = ret

\* 1. Direct parse
ParseDirect ==
  /\ pc = "p1"
  /\ Strategy("direct", TryLoad(raw), "p2")
  /\ UNCHANGED <<entry, caller, raw, repairCalls, repairResp, calls, firstRaw,
                 instrumental, parsed, normIn, outcome, again>>
  /\ UNCHANGED appVars
  /\ UNCHANGED libVars

\* a truncation close whose failure goes straight to the repair call
ParseCloseSkipsExtract ==
  /\ pc = "p2"
  /\ Strategy("close", TryLoad(_close_truncated_json(raw)), "p4")
  /\ UNCHANGED <<entry, caller, raw, repairCalls, repairResp, calls, firstRaw,
                 instrumental, parsed, normIn, outcome, again>>
  /\ UNCHANGED appVars
  /\ UNCHANGED libVars

\* 2. Try to close truncated JSON then parse
ParseClose ==
  /\ pc = "p2"
  /\ Strategy("close", TryLoad(_close_truncated_json(raw)), "p3")
  /\ UNCHANGED <<entry, caller, raw, repairCalls, repairResp, calls, firstRaw,
                 instrumental, parsed, normIn, outcome, again>>
  /\ UNCHANGED appVars
  /\ UNCHANGED libVars

\* 3. Extract first {...} block and try closing it
ParseExtract ==
  /\ pc = "p3"
  /\ Strategy("extract", TryExtract(raw), "p4")
  /\ UNCHANGED <<entry, caller, raw, repairCalls, repairResp, calls, firstRaw,
                 instrumental, parsed, normIn, outcome, again>>
  /\ UNCHANGED appVars
  /\ UNCHANGED libVars

\* a repair call made outside try / except: what it raises leaves _parse
ParseRepairUncaught ==
  /\ pc = "p4"
  /\ \E resp \in Backend :
       /\ repairResp' = resp
       /\ tried' = Append(tried, "repair")
       /\ IF resp.raises
            THEN pc' = "done" /\ ret' = ret /\ outcome' = [raised |-> TRUE, v |-> PyNone]
            ELSE /\ IF TryLoad(resp.text).ok
                      THEN pc' = "ret" /\ ret' = TryLoad(resp.text).v
                      ELSE pc' = "p5" /\ ret' = ret
                 /\ UNCHANGED outcome
  /\ repairCalls' = repairCalls + 1
  /\ calls' = calls + 1
  /\ UNCHANGED <<entry, caller, raw, firstRaw, instrumental, parsed, normIn, again>>
  /\ UNCHANGED appVars
  /\ UNCHANGED libVars

\* 4. Repair call
ParseRepair ==
  /\ pc = "p4"
  /\ \E resp \in Backend :
       /\ repairResp' = resp
       /\ Strategy("repair", TryRepair(resp), "p5")
  /\ repairCalls' = repairCalls + 1
  /\ calls' = calls + 1
  /\ UNCHANGED <<entry, caller, raw, firstRaw, instrumental, parsed, normIn, outcome,
                 again>>
  /\ UNCHANGED appVars
  /\ UNCHANGED libVars

\* 5. Safe fallback
ParseFallback ==
  /\ pc = "p5"
  /\ Strategy("fallback", [ok |-> TRUE, v |-> SafeFallback], "p5")
  /\ UNCHANGED <<entry, caller, raw, repairCalls, repairResp, calls, firstRaw,
                 instrumental, parsed, normIn, outcome, again>>
  /\ UNCHANGED appVars
  /\ UNCHANGED libVars

\* a return of _parse where _lint returns the rewrite whatever its lyrics are
ParseReturnKeepsRewrite ==
  /\ pc = "ret"
  /\ CASE caller = "test" ->
            /\ pc' = "done"
            /\ outcome' = [raised |-> FALSE, v |-> ret]
            /\ UNCHANGED parsed
       [] caller = "generate" ->
            /\ parsed' = ret
            /\ IF ~NeedClarification(ret) /\ ~instrumental
                 THEN pc' = "lint" /\ UNCHANGED outcome
                 ELSE pc' = "done" /\ outcome' = [raised |-> FALSE, v |-> ret]
       [] caller = "lint" ->
            /\ pc' = "done"
            /\ outcome' = [raised |-> FALSE, v |-> ret]
            /\ UNCHANGED parsed
  /\ UNCHANGED <<entry, caller, raw, tried, ret, repairCalls, repairResp, calls, firstRaw,
                 instrumental, normIn, again>>
  /\ UNCHANGED appVars
  /\ UNCHANGED libVars

\* a return of _parse where _lint lints the rewrite again
ParseReturnLintsAgain ==
  /\ pc = "ret"
  /\ CASE caller = "test" ->
            /\ pc' = "done"
            /\ outcome' = [raised |-> FALSE, v |-> ret]
            /\ UNCHANGED parsed
       [] caller = "generate" ->
            /\ parsed' = ret
            /\ IF ~NeedClarification(ret) /\ ~instrumental
                 THEN pc' = "lint" /\ UNCHANGED outcome
                 ELSE pc' = "done" /\ outcome' = [raised |-> FALSE, v |-> ret]
       [] caller = "lint" ->
            IF LyricsText(ret) # <<>>
              THEN pc' = "lint" /\ parsed' = ret /\ UNCHANGED outcome
              ELSE /\ pc' = "done"
                   /\ outcome' = [raised |-> FALSE, v |-> parsed]
                   /\ UNCHANGED parsed
  /\ UNCHANGED <<entry, caller, raw, tried, ret, repairCalls, repairResp, calls, firstRaw,
                 instrumental, normIn, again>>
  /\ UNCHANGED appVars
  /\ UNCHANGED libVars

\* the return of _parse into its caller
ParseReturn ==
  /\ pc = "ret"
  /\ CASE caller = "test" ->
            \* the direct call ends
            /\ pc' = "done"
            /\ outcome' = [raised |-> FALSE, v |-> ret]
            /\ UNCHANGED parsed
       [] caller = "generate" ->
            \* parsed = _parse(raw); lint unless clarification or instrumental_only
            /\ parsed' = ret
            /\ IF ~NeedClarification(ret) /\ ~instrumental
                 THEN pc' = "lint" /\ UNCHANGED outcome
                 ELSE pc' = "done" /\ outcome' = [raised |-> FALSE, v |-> ret]
       [] caller = "lint" ->
            \* fixed = _parse(...); return fixed if fixed["lyrics"]["text"] else parsed
            /\ pc' = "done"
            /\ outcome' = [raised |-> FALSE,
                           v      |-> IF LyricsText(ret) # <<>> THEN ret ELSE parsed]
            /\ UNCHANGED parsed
  /\ UNCHANGED <<entry, caller, raw, tried, ret, repairCalls, repairResp, calls, firstRaw,
                 instrumental, normIn, again>>
  /\ UNCHANGED appVars
  /\ UNCHANGED libVars

(***************************************************************************)
(* _lint                                                                   *)
(***************************************************************************)
\* found = [p for p in BANNED if p in text]
Found(r) == SelectSeq(BANNED, LAMBDA p : Contains(ToLower(LyricsText(r)), p))

\* a lint that asks for a rewrite whatever it found
LintAlwaysRewrites ==
  /\ pc = "lint"
  /\ pc' = "rewrite"
  /\ UNCHANGED <<entry, caller, raw, tried, ret, repairCalls, repairResp, calls, firstRaw,
                 instrumental, parsed, normIn, outcome, again>>
  /\ UNCHANGED appVars
  /\ UNCHANGED libVars

\* _lint up to `if not found: return parsed`
Lint ==
  /\ pc = "lint"
  /\ IF Found(parsed) = <<>>
       THEN pc' = "done" /\ outcome' = [raised |-> FALSE, v |-> parsed]
       ELSE pc' = "rewrite" /\ UNCHANGED outcome
  /\ UNCHANGED <<entry, caller, raw, tried, ret, repairCalls, repairResp, calls, firstRaw,
                 instrumental, parsed, normIn, again>>
  /\ UNCHANGED appVars
  /\ UNCHANGED libVars

\* fixed = _parse(_call_ollama(fix)): the rewrite call and the entry of _parse
LintRewrite ==
  /\ pc = "rewrite"
  /\ calls' = calls + 1
  /\ \E resp \in Backend :
       IF resp.raises
         THEN \* nothing catches the exception: it leaves _lint and generate
              /\ pc' = "done"
              /\ outcome' = [raised |-> TRUE, v |-> PyNone]
              /\ UNCHANGED <<caller, raw, tried, ret, repairCalls, repairResp>>
         ELSE /\ EnterParse("lint", resp.text)
              /\ UNCHANGED outcome
  /\ UNCHANGED <<entry, firstRaw, instrumental, parsed, normIn, again>>
  /\ UNCHANGED appVars
  /\ UNCHANGED libVars

(***************************************************************************)
(* The next outside call                                                   *)
(***************************************************************************)
Finish ==
  /\ pc \in {"done", "normalized"}
  /\ pc = "normalized" => outcome.raised
  /\ pc' = "idle"
  /\ entry' = "none"
  /\ caller' = "none"
  /\ raw' = <<>>
  /\ tried' = <<>>
  /\ ret' = PyNone
  /\ repairCalls' = 0
  /\ repairResp' = NoResp
  /\ calls' = 0
  /\ firstRaw' = <<>>
  /\ instrumental' = FALSE
  /\ parsed' = PyNone
  /\ normIn' = PyNone
  /\ outcome' = NoOutcome
  /\ again' = NoAgain
  /\ UNCHANGED appVars
  /\ UNCHANGED libVars

Next ==
  \/ CallParse
  \/ CallGenerate
  \/ CallNormalize
  \/ NormalizeAgain
  \/ ParseDirect
  \/ ParseClose
  \/ ParseExtract
  \/ ParseRepair
  \/ ParseFallback
  \/ ParseReturn
  \/ Lint
  \/ LintRewrite
  \/ Finish

Spec == Init /\ [][Next]_vars

(***************************************************************************)
(* app.py: _run_bg, _helper_core, on_submit                                *)
(***************************************************************************)
MaxPolls == 3
MaxRequests == 1

Stages == {"helper", "lyrics", "music", "vocals"}

\* an exception object, and the (audio, sample_rate) tuple of a generator
PyError == [t |-> "exception"]
Audio(wav, sr) == [t |-> "tuple", wav |-> wav, sr |-> sr]

\* what secret_helper.generate may return: the fallback or a parsed document
HelperResults == {SafeFallback, TryLoad(DocClean).v}

\* what the work of a stage may return
WorkResults(s) ==
  CASE s = "helper" -> HelperResults
    [] s = "lyrics" -> {PyS(<<>>), PyS(<<"l", "a">>)}
    [] s = "music"  -> {Audio("beat", 32000), Audio("other beat", 32000)}
    [] OTHER        -> {Audio("voice", 24000)}

\* values of the custom_lyrics box
CustomLyrics == {<<>>, <<" ">>, <<"l", "a", "\n">>}

Entry(role, kind) == [role |-> role, kind |-> kind]

\* messages[-1] = (role, kind)
ReplaceLast(m, e) == [m EXCEPT ![Len(m)] = e]

NoReq == [music_only |-> FALSE, custom |-> <<>>]

\* no generator is running
AppIdle ==
  /\ gen = "none"
  /\ gpc = "idle"
  /\ req = NoReq
  /\ messages = <<>>
  /\ stage = "none"
  /\ thread = [s \in Stages |-> "none"]
  /\ result = [s \in Stages |-> PyNone]
  /\ exc = [s \in Stages |-> PyNone]
  /\ writes = [s \in Stages |-> [res |-> 0, exc |-> 0]]
  /\ polls = 0
  /\ trace = <<>>
  /\ lyrics_text = <<>>
  /\ saved = "none"
  /\ mobj = 0
  /\ yielded = <<>>
  /\ unpacked = [instrumental |-> PyNone, vocals |-> PyNone]
  /\ mixed = <<>>
  /\ ended = "no"

\* app.py loaded: messages_state = gr.State([]), helper_state = gr.State(None)
AppInit ==
  /\ pc = "idle"
  /\ entry = "none"
  /\ caller = "none"
  /\ raw = <<>>
  /\ tried = <<>>
  /\ ret = PyNone
  /\ repairCalls = 0
  /\ repairResp = NoResp
  /\ calls = 0
  /\ firstRaw = <<>>
  /\ instrumental = FALSE
  /\ parsed = PyNone
  /\ normIn = PyNone
  /\ outcome = NoOutcome
  /\ again = NoAgain
  /\ AppIdle
  /\ online \in BOOLEAN
  /\ session = [messages |-> <<>>, helper_song |-> PyNone, audio |-> "none"]
  /\ requests = 0
  /\ LYRICS_BACKEND = "ollama"
  /\ LibIdle

\* yield of _helper_core: (chat, messages, helper state, ...)
HelperYield(m, song) ==
  /\ session' = [session EXCEPT !.messages = m, !.helper_song = song]
  /\ yielded' = Append(yielded, [obj |-> mobj', seen |-> m])

\* yield of on_submit: ("", chat, messages, audio path)
SubmitYield(m, path) ==
  /\ session' = [session EXCEPT !.messages = m, !.audio = path]
  /\ yielded' = Append(yielded, [obj |-> mobj', seen |-> m])

(***************************************************************************)
(* _run_bg and its worker                                                  *)
(***************************************************************************)
\* t = threading.Thread(target=_worker, daemon=True)
RunBgCreate ==
  /\ gpc = "create"
  /\ thread' = [thread EXCEPT ![stage] = "created"]
  /\ gpc' = "start"
  /\ UNCHANGED <<coreVars, libVars, mobj, yielded, unpacked, mixed, gen, req, online, messages, session, stage, result, exc, writes,
                 polls, trace, lyrics_text, saved, ended, requests>>

\* t.start(); return result, exc, t
RunBgStart ==
  /\ gpc = "start"
  /\ thread' = [thread EXCEPT ![stage] = "running"]
  /\ polls' = 0
  /\ trace' = Append(trace, "dispatch")
  /\ gpc' = IF gen = "helper" THEN "thinking" ELSE "poll"
  /\ UNCHANGED <<coreVars, libVars, mobj, yielded, unpacked, mixed, gen, req, online, messages, session, stage, result, exc, writes,
                 lyrics_text, saved, ended, requests>>

\* a worker that hands its result to the session itself
WorkerReturnToSession(s) ==
  /\ thread[s] = "running"
  /\ \E v \in WorkResults(s) :
       /\ result' = [result EXCEPT ![s] = v]
       /\ session' = [session EXCEPT !.helper_song = v]
  /\ writes' = [writes EXCEPT ![s].res = @ + 1]
  /\ thread' = [thread EXCEPT ![s] = "stored"]
  /\ UNCHANGED <<coreVars, libVars, mobj, yielded, unpacked, mixed, gen, gpc, req, online, messages, stage, exc, polls,
                 trace, lyrics_text, saved, ended, requests>>

\* result[0] = fn(*args)
WorkerReturn(s) ==
  /\ thread[s] = "running"
  /\ \E v \in WorkResults(s) : result' = [result EXCEPT ![s] = v]
  /\ writes' = [writes EXCEPT ![s].res = @ + 1]
  /\ thread' = [thread EXCEPT ![s] = "stored"]
  /\ UNCHANGED <<coreVars, libVars, mobj, yielded, unpacked, mixed, gen, gpc, req, online, messages, session, stage, exc, polls,
                 trace, lyrics_text, saved, ended, requests>>

\* a worker whose work raised and that records nothing
WorkerRaiseUnrecorded(s) ==
  /\ thread[s] = "running"
  /\ thread' = [thread EXCEPT ![s] = "stored"]
  /\ UNCHANGED <<coreVars, libVars, mobj, yielded, unpacked, mixed, gen, gpc, req, online, messages, session, stage, result, exc,
                 writes, polls, trace, lyrics_text, saved, ended, requests>>

\* except Exception as e: exc[0] = e
WorkerRaise(s) ==
  /\ thread[s] = "running"
  /\ exc' = [exc EXCEPT ![s] = PyError]
  /\ writes' = [writes EXCEPT ![s].exc = @ + 1]
  /\ thread' = [thread EXCEPT ![s] = "stored"]
  /\ UNCHANGED <<coreVars, libVars, mobj, yielded, unpacked, mixed, gen, gpc, req, online, messages, session, stage, result, polls,
                 trace, lyrics_text, saved, ended, requests>>

\* _worker returns: the thread is no longer alive
WorkerExit(s) ==
  /\ thread[s] = "stored"
  /\ thread' = [thread EXCEPT ![s] = "dead"]
  /\ UNCHANGED <<coreVars, libVars, mobj, yielded, unpacked, mixed, gen, gpc, req, online, messages, session, stage, result, exc,
                 writes, polls, trace, lyrics_text, saved, ended, requests>>

\* t.is_alive()
IsAlive(s) == thread[s] \in {"running", "stored"}

(***************************************************************************)
(* The polling loop of both generators                                     *)
(***************************************************************************)
\* what the polling loop of a stage shows: _status(..) or _prog(20 | 60, ..)
PollingLabel(g, s) ==
  CASE g = "helper" -> "thinking"
    [] s = "lyrics" -> "crafting"
    [] s = "music"  -> "progress 20"
    [] OTHER        -> "progress 60"

\* while t.is_alive(): time.sleep(..); messages[-1] = ..; yield ..
PollAlive ==
  /\ gpc = "poll"
  /\ IsAlive(stage)
  /\ polls < MaxPolls
  /\ mobj' = mobj
  /\ polls' = polls + 1
  /\ messages' = ReplaceLast(messages, Entry("bot", PollingLabel(gen, stage)))
  /\ IF gen = "helper"
       THEN HelperYield(messages', session.helper_song)
       ELSE SubmitYield(messages', "none")
  /\ trace' = trace \o <<"sleep", "yield">>
  /\ UNCHANGED <<coreVars, libVars, unpacked, mixed, gen, gpc, req, online, stage, thread, result, exc, writes,
                 lyrics_text, saved, ended, requests>>

\* a polling loop that is left although the thread is alive
PollGivesUp ==
  /\ gpc = "poll"
  /\ gpc' = "read"
  /\ trace' = Append(trace, "joined")
  /\ UNCHANGED <<coreVars, libVars, mobj, yielded, unpacked, mixed, gen, req, online, messages, session, stage, thread, result, exc,
                 writes, polls, lyrics_text, saved, ended, requests>>

\* t.is_alive() is false: the loop is left
PollDead ==
  /\ gpc = "poll"
  /\ ~IsAlive(stage)
  /\ gpc' = "join"
  /\ UNCHANGED <<coreVars, libVars, mobj, yielded, unpacked, mixed, gen, req, online, messages, session, stage, thread, result, exc,
                 writes, polls, trace, lyrics_text, saved, ended, requests>>

\* t.join() returns
Join ==
  /\ gpc = "join"
  /\ ~IsAlive(stage)
  /\ gpc' = "read"
  /\ trace' = Append(trace, "joined")
  /\ UNCHANGED <<coreVars, libVars, mobj, yielded, unpacked, mixed, gen, req, online, messages, session, stage, thread, result, exc,
                 writes, polls, lyrics_text, saved, ended, requests>>

(***************************************************************************)
(* _helper_core                                                            *)
(***************************************************************************)
\* messages = list(messages) + [("user", message)]; yield ..
HelperStart ==
  /\ gen = "none"
  /\ requests < MaxRequests
  /\ mobj' = mobj + 1
  /\ requests' = requests + 1
  /\ gen' = "helper"
  /\ messages' = Append(session.messages, Entry("user", "message"))
  /\ HelperYield(messages', session.helper_song)
  /\ trace' = <<"yield">>
  /\ stage' = "helper"
  /\ gpc' = "create"
  /\ UNCHANGED <<coreVars, libVars, unpacked, mixed, req, online, thread, result, exc, writes, polls, lyrics_text,
                 saved, ended>>

\* messages = messages + [("bot", _status(..))]; yield ..
HelperThinking ==
  /\ gen = "helper"
  /\ gpc = "thinking"
  /\ mobj' = mobj + 1
  /\ messages' = Append(messages, Entry("bot", "thinking"))
  /\ HelperYield(messages', session.helper_song)
  /\ trace' = Append(trace, "yield")
  /\ gpc' = "poll"
  /\ UNCHANGED <<coreVars, libVars, unpacked, mixed, gen, req, online, stage, thread, result, exc, writes, polls,
                 lyrics_text, saved, ended, requests>>

\* a last step of _helper_core that hands out the old helper state
HelperReadKeepsSong ==
  /\ gen = "helper"
  /\ gpc = "read"
  /\ mobj' = mobj
  /\ messages' = ReplaceLast(messages,
                   Entry("bot", IF exc[stage] # PyNone THEN "error" ELSE "card"))
  /\ HelperYield(messages', session.helper_song)
  /\ trace' = Append(trace, "yield")
  /\ gpc' = "end"
  /\ ended' = "returned"
  /\ UNCHANGED <<coreVars, libVars, unpacked, mixed, gen, req, online, stage, thread, result, exc, writes,
                 polls, lyrics_text, saved, requests>>

\* if exc[0]: the error card, yield, return / else the card of res[0], yield
HelperRead ==
  /\ gen = "helper"
  /\ gpc = "read"
  /\ mobj' = mobj
  /\ IF exc[stage] # PyNone
       THEN /\ messages' = ReplaceLast(messages, Entry("bot", "error"))
            /\ HelperYield(messages', session.helper_song)
       ELSE /\ messages' = ReplaceLast(messages, Entry("bot", "card"))
            /\ HelperYield(messages', result[stage])
  /\ trace' = Append(trace, "yield")
  /\ gpc' = "end"
  /\ ended' = "returned"
  /\ UNCHANGED <<coreVars, libVars, unpacked, mixed, gen, req, online, stage, thread, result, exc, writes, polls,
                 lyrics_text, saved, requests>>

(***************************************************************************)
(* on_submit                                                               *)
(***************************************************************************)
\* the empty-message return, or the user bubble and its yield
SubmitStart ==
  /\ gen = "none"
  /\ requests < MaxRequests
  /\ requests' = requests + 1
  /\ gen' = "submit"
  /\ trace' = <<"yield">>
  /\ \E empty \in BOOLEAN, music_only \in BOOLEAN, custom \in CustomLyrics :
       IF empty
         THEN /\ mobj' = mobj
              /\ messages' = session.messages
              /\ SubmitYield(messages', "none")
              /\ gpc' = "end"
              /\ ended' = "returned"
              /\ UNCHANGED req
         ELSE /\ mobj' = mobj + 1
              /\ messages' = Append(session.messages, Entry("user", "message"))
              /\ SubmitYield(messages', "none")
              /\ gpc' = IF online THEN "status" ELSE "warn"
              /\ req' = [music_only |-> music_only, custom |-> custom]
              /\ UNCHANGED ended
  /\ UNCHANGED <<coreVars, libVars, unpacked, mixed, online, stage, thread, result, exc, writes, polls, lyrics_text,
                 saved>>

\* if not _OL_ONLINE or not _OL_MODEL: the warning card and its yield
SubmitWarn ==
  /\ gen = "submit"
  /\ gpc = "warn"
  /\ mobj' = mobj + 1
  /\ messages' = Append(messages, Entry("bot", "warning"))
  /\ SubmitYield(messages', "none")
  /\ trace' = Append(trace, "yield")
  /\ gpc' = "status"
  /\ UNCHANGED <<coreVars, libVars, unpacked, mixed, gen, req, online, stage, thread, result, exc, writes, polls,
                 lyrics_text, saved, ended, requests>>

\* Step 1: the status line and its yield, then the branch on music_only and
\* custom_lyrics
SubmitStatus ==
  /\ gen = "submit"
  /\ gpc = "status"
  /\ mobj' = mobj + 1
  /\ messages' = Append(messages, Entry("bot", "status"))
  /\ SubmitYield(messages', "none")
  /\ trace' = Append(trace, "yield")
  /\ lyrics_text' = <<>>
  /\ IF req.music_only
       THEN gpc' = "cards" /\ UNCHANGED stage
       ELSE IF req.custom # <<>> /\ Strip(req.custom) # <<>>
              THEN gpc' = "custom" /\ UNCHANGED stage
              ELSE gpc' = "create" /\ stage' = "lyrics"
  /\ UNCHANGED <<coreVars, libVars, unpacked, mixed, gen, req, online, thread, result, exc, writes, polls, saved,
                 ended, requests>>

\* lyrics_text = custom_lyrics.strip(); "USING YOUR LYRICS"; yield
SubmitCustomLyrics ==
  /\ gen = "submit"
  /\ gpc = "custom"
  /\ mobj' = mobj
  /\ lyrics_text' = Strip(req.custom)
  /\ messages' = ReplaceLast(messages, Entry("bot", "your lyrics"))
  /\ SubmitYield(messages', "none")
  /\ trace' = Append(trace, "yield")
  /\ gpc' = "cards"
  /\ UNCHANGED <<coreVars, libVars, unpacked, mixed, gen, req, online, stage, thread, result, exc, writes, polls,
                 saved, ended, requests>>

\* lyrics_text = res[0] or ""
SubmitReadLyrics ==
  /\ gen = "submit"
  /\ stage = "lyrics"
  /\ gpc = "read"
  /\ lyrics_text' = IF Truthy(result[stage]) THEN result[stage].s ELSE <<>>
  /\ gpc' = "cards"
  /\ UNCHANGED <<coreVars, libVars, mobj, yielded, unpacked, mixed, gen, req, online, messages, session, stage, thread, result, exc,
                 writes, polls, trace, saved, ended, requests>>

\* Step 2: the SOUND and LYRICS cards and their yield; Step 3 comes next
SubmitCards ==
  /\ gen = "submit"
  /\ gpc = "cards"
  /\ mobj' = mobj
  /\ messages' = ReplaceLast(messages,
                   Entry("bot", IF ~req.music_only /\ lyrics_text # <<>>
                                  THEN "sound and lyrics" ELSE "sound"))
  /\ SubmitYield(messages', "none")
  /\ trace' = Append(trace, "yield")
  /\ stage' = "music"
  /\ gpc' = "create"
  /\ UNCHANGED <<coreVars, libVars, unpacked, mixed, gen, req, online, thread, result, exc, writes, polls,
                 lyrics_text, saved, ended, requests>>

\* a Step 3 that goes on whatever the instrumental work did
SubmitReadMusicGoesOn ==
  /\ gen = "submit"
  /\ stage = "music"
  /\ gpc = "read"
  /\ IF req.music_only
       THEN gpc' = "saving" /\ UNCHANGED stage
       ELSE gpc' = "create" /\ stage' = "vocals"
  /\ unpacked' = [unpacked EXCEPT !.instrumental = result[stage]]
  /\ UNCHANGED <<coreVars, libVars, mobj, yielded, mixed, gen, req, online, messages, session, thread, result, exc, writes,
                 polls, trace, lyrics_text, saved, ended, requests>>

\* if exc_m[0]: raise exc_m[0] / instrumental, instr_sr = res_m[0]
SubmitReadMusic ==
  /\ gen = "submit"
  /\ stage = "music"
  /\ gpc = "read"
  /\ IF exc[stage] # PyNone
       THEN gpc' = "end" /\ ended' = "raised" /\ UNCHANGED stage
       ELSE /\ UNCHANGED ended
            /\ IF req.music_only
                 THEN gpc' = "saving" /\ UNCHANGED stage
                 ELSE gpc' = "create" /\ stage' = "vocals"
  /\ unpacked' = IF exc[stage] # PyNone THEN unpacked
                  ELSE [unpacked EXCEPT !.instrumental = result[stage]]
  /\ UNCHANGED <<coreVars, libVars, mobj, yielded, mixed, gen, req, online, messages, session, thread, result, exc, writes,
                 polls, trace, lyrics_text, saved, requests>>

\* music_only: the "Saving" progress line and its yield
SubmitSaving ==
  /\ gen = "submit"
  /\ gpc = "saving"
  /\ mobj' = mobj
  /\ messages' = ReplaceLast(messages, Entry("bot", "progress 90"))
  /\ SubmitYield(messages', "none")
  /\ trace' = Append(trace, "yield")
  /\ gpc' = "save"
  /\ UNCHANGED <<coreVars, libVars, unpacked, mixed, gen, req, online, stage, thread, result, exc, writes, polls,
                 lyrics_text, saved, ended, requests>>

\* mixer.save_instrumental, the final card, hist.add, the last yield, return
SubmitSaveInstrumental ==
  /\ gen = "submit"
  /\ gpc = "save"
  /\ mobj' = mobj
  /\ mixed' = <<unpacked.instrumental>>
  /\ saved' = "instrumental"
  /\ messages' = ReplaceLast(messages, Entry("bot", "final"))
  /\ SubmitYield(messages', "instrumental")
  /\ trace' = trace \o <<"save", "yield">>
  /\ gpc' = "end"
  /\ ended' = "returned"
  /\ UNCHANGED <<coreVars, libVars, unpacked, gen, req, online, stage, thread, result, exc, writes, polls,
                 lyrics_text, requests>>

\* if exc_v[0]: raise exc_v[0] / vocals, vocal_sr = res_v[0]
SubmitReadVocals ==
  /\ gen = "submit"
  /\ stage = "vocals"
  /\ gpc = "read"
  /\ IF exc[stage] # PyNone
       THEN gpc' = "end" /\ ended' = "raised"
       ELSE gpc' = "mixing" /\ UNCHANGED ended
  /\ unpacked' = IF exc[stage] # PyNone THEN unpacked
                  ELSE [unpacked EXCEPT !.vocals = result[stage]]
  /\ UNCHANGED <<coreVars, libVars, mobj, yielded, mixed, gen, req, online, messages, session, stage, thread, result, exc,
                 writes, polls, trace, lyrics_text, saved, requests>>

\* Step 5: the "Mixing" progress line and its yield
SubmitMixing ==
  /\ gen = "submit"
  /\ gpc = "mixing"
  /\ mobj' = mobj
  /\ messages' = ReplaceLast(messages, Entry("bot", "progress 90"))
  /\ SubmitYield(messages', "none")
  /\ trace' = Append(trace, "yield")
  /\ gpc' = "mix"
  /\ UNCHANGED <<coreVars, libVars, unpacked, mixed, gen, req, online, stage, thread, result, exc, writes, polls,
                 lyrics_text, saved, ended, requests>>

\* mixer.mix, the final card, hist.add, the last yield
SubmitMix ==
  /\ gen = "submit"
  /\ gpc = "mix"
  /\ mobj' = mobj
  /\ mixed' = <<unpacked.instrumental, unpacked.vocals>>
  /\ saved' = "song"
  /\ messages' = ReplaceLast(messages, Entry("bot", "final"))
  /\ SubmitYield(messages', "song")
  /\ trace' = trace \o <<"save", "yield">>
  /\ gpc' = "end"
  /\ ended' = "returned"
  /\ UNCHANGED <<coreVars, libVars, unpacked, gen, req, online, stage, thread, result, exc, writes, polls,
                 lyrics_text, requests>>

\* a consumer that closes the generator and cancels the work with it
AbandonCancelsWork ==
  /\ gen # "none"
  /\ ended = "no"
  /\ trace # <<>>
  /\ trace[Len(trace)] = "yield"
  /\ thread' = [s \in Stages |-> IF IsAlive(s) THEN "none" ELSE thread[s]]
  /\ gpc' = "end"
  /\ ended' = "abandoned"
  /\ UNCHANGED <<coreVars, libVars, gen, req, online, messages, session, stage, result, exc,
                 writes, polls, trace, lyrics_text, saved, mobj, yielded, unpacked, mixed,
                 requests>>

\* the consumer stops iterating: the generator, suspended at a yield, is closed;
\* nothing in _run_bg or the generators stops the daemon thread
Abandon ==
  /\ gen # "none"
  /\ ended = "no"
  /\ trace # <<>>
  /\ trace[Len(trace)] = "yield"
  /\ gpc' = "end"
  /\ ended' = "abandoned"
  /\ UNCHANGED <<coreVars, libVars, gen, req, online, messages, session, stage, thread, result,
                 exc, writes, polls, trace, lyrics_text, saved, mobj, yielded, unpacked, mixed,
                 requests>>

\* the generator is exhausted, has raised or was closed, and no worker of it
\* is left: the caller is free for the next event
Close ==
  /\ ended # "no"
  /\ \A s \in Stages : ~IsAlive(s)
  /\ gen' = "none"
  /\ gpc' = "idle"
  /\ req' = NoReq
  /\ messages' = <<>>
  /\ stage' = "none"
  /\ thread' = [s \in Stages |-> "none"]
  /\ result' = [s \in Stages |-> PyNone]
  /\ exc' = [s \in Stages |-> PyNone]
  /\ writes' = [s \in Stages |-> [res |-> 0, exc |-> 0]]
  /\ polls' = 0
  /\ trace' = <<>>
  /\ lyrics_text' = <<>>
  /\ saved' = "none"
  /\ mobj' = 0
  /\ yielded' = <<>>
  /\ unpacked' = [instrumental |-> PyNone, vocals |-> PyNone]
  /\ mixed' = <<>>
  /\ ended' = "no"
  /\ UNCHANGED <<coreVars, libVars, online, session, requests>>

AppNext ==
  \/ HelperStart
  \/ HelperThinking
  \/ HelperRead
  \/ SubmitStart
  \/ SubmitWarn
  \/ SubmitStatus
  \/ SubmitCustomLyrics
  \/ SubmitReadLyrics
  \/ SubmitCards
  \/ SubmitReadMusic
  \/ SubmitSaving
  \/ SubmitSaveInstrumental
  \/ SubmitReadVocals
  \/ SubmitMixing
  \/ SubmitMix
  \/ RunBgCreate
  \/ RunBgStart
  \/ PollAlive
  \/ PollDead
  \/ Join
  \/ \E s \in Stages : WorkerReturn(s)
  \/ \E s \in Stages : WorkerRaise(s)
  \/ \E s \in Stages : WorkerExit(s)
  \/ Abandon
  \/ Close

AppSpec == AppInit /\ [][AppNext]_vars

\* the threads of _run_bg are scheduled: a worker that can take a step takes it
WorkersRun ==
  \A s \in Stages :
    /\ WF_vars(WorkerReturn(s) \/ WorkerRaise(s))
    /\ WF_vars(WorkerExit(s))

AppFairSpec == AppSpec /\ WorkersRun

(***************************************************************************)
(* lyrics_gen.generate                                                     *)
(***************************************************************************)
MaxGenerations == 3

LyricsBackends == {"ollama", "transformers", "template"}

\* generate(theme, genre, mood) is called
LyricsCall ==
  /\ lpc = "idle"
  /\ lcalled' = <<>>
  /\ lret' = NoLyrics
  /\ lpc' = IF LYRICS_BACKEND = "ollama" THEN "ollama"
            ELSE IF LYRICS_BACKEND = "transformers" THEN "transformers"
            ELSE "template"
  /\ UNCHANGED <<coreVars, appVars, LYRICS_BACKEND, _model, _processor, _loaded_model_name,
                 mpc, model_name, used, gret, runs>>

\* a call of _ollama outside try / except
LyricsOllamaUncaught ==
  /\ lpc = "ollama"
  /\ lcalled' = Append(lcalled, "ollama")
  /\ lpc' = "done"
  /\ \E raises \in BOOLEAN :
       lret' = IF raises THEN [raised |-> TRUE, v |-> "None"]
               ELSE [raised |-> FALSE, v |-> "ollama lyrics"]
  /\ UNCHANGED <<coreVars, appVars, LYRICS_BACKEND, _model, _processor, _loaded_model_name,
                 mpc, model_name, used, gret, runs>>

\* try: return _ollama(theme, genre, mood) / except Exception: print
LyricsOllama ==
  /\ lpc = "ollama"
  /\ lcalled' = Append(lcalled, "ollama")
  /\ \E raises \in BOOLEAN :
       IF raises
         THEN lpc' = "transformers" /\ UNCHANGED lret
         ELSE lpc' = "done" /\ lret' = [raised |-> FALSE, v |-> "ollama lyrics"]
  /\ UNCHANGED <<coreVars, appVars, LYRICS_BACKEND, _model, _processor, _loaded_model_name,
                 mpc, model_name, used, gret, runs>>

\* try: return _transformers(theme, genre, mood) / except Exception: print
LyricsTransformers ==
  /\ lpc = "transformers"
  /\ lcalled' = Append(lcalled, "transformers")
  /\ \E raises \in BOOLEAN :
       IF raises
         THEN lpc' = "template" /\ UNCHANGED lret
         ELSE lpc' = "done" /\ lret' = [raised |-> FALSE, v |-> "transformers lyrics"]
  /\ UNCHANGED <<coreVars, appVars, LYRICS_BACKEND, _model, _processor, _loaded_model_name,
                 mpc, model_name, used, gret, runs>>

\* return _template(theme, genre, mood)
LyricsTemplate ==
  /\ lpc = "template"
  /\ lcalled' = Append(lcalled, "template")
  /\ lret' = [raised |-> FALSE, v |-> "template lyrics"]
  /\ lpc' = "done"
  /\ UNCHANGED <<coreVars, appVars, LYRICS_BACKEND, _model, _processor, _loaded_model_name,
                 mpc, model_name, used, gret, runs>>

\* the caller has the lyrics
LyricsDone ==
  /\ lpc = "done"
  /\ lpc' = "idle"
  /\ UNCHANGED <<coreVars, appVars, LYRICS_BACKEND, lcalled, lret, _model, _processor,
                 _loaded_model_name, mpc, model_name, used, gret, runs>>

(***************************************************************************)
(* music_gen.load and music_gen.generate, called by two workers            *)
(***************************************************************************)
MUSICGEN_MODEL == "facebook/musicgen-small"

\* the model sizes of the UI, and no size given
ModelSizes == {"small", "large", "None"}

\* load: the model name of a size
ModelNameOf(size) ==
  CASE size = "small"  -> "facebook/musicgen-small"
    [] size = "medium" -> "facebook/musicgen-medium"
    [] size = "large"  -> "facebook/musicgen-large"
    [] OTHER           -> MUSICGEN_MODEL

\* generate(prompt, duration, model_size) is entered by worker w: load(model_size)
\* computes model_name
MusicCall(w) ==
  /\ mpc[w] = "idle"
  /\ runs < MaxGenerations
  /\ runs' = runs + 1
  /\ \E size \in ModelSizes : model_name' = [model_name EXCEPT ![w] = ModelNameOf(size)]
  /\ used' = [used EXCEPT ![w] = NotUsed]
  /\ gret' = [gret EXCEPT ![w] = "none"]
  /\ mpc' = [mpc EXCEPT ![w] = "check"]
  /\ UNCHANGED <<coreVars, appVars, LYRICS_BACKEND, lpc, lcalled, lret, _model, _processor,
                 _loaded_model_name>>

\* if _model is not None and _loaded_model_name == model_name: return
LoadCheck(w) ==
  /\ mpc[w] = "check"
  /\ mpc' = [mpc EXCEPT ![w] = IF _model # "None" /\ _loaded_model_name = model_name[w]
                                  THEN "process" ELSE "unload"]
  /\ UNCHANGED <<coreVars, appVars, LYRICS_BACKEND, lpc, lcalled, lret, _model, _processor,
                 _loaded_model_name, model_name, used, gret, runs>>

\* if _model is not None: del _model, _processor; _model = _processor = None
LoadUnload(w) ==
  /\ mpc[w] = "unload"
  /\ IF _model # "None"
       THEN _model' = "None" /\ _processor' = "None"
       ELSE UNCHANGED <<_model, _processor>>
  /\ mpc' = [mpc EXCEPT ![w] = "processor"]
  /\ UNCHANGED <<coreVars, appVars, LYRICS_BACKEND, lpc, lcalled, lret, _loaded_model_name,
                 model_name, used, gret, runs>>

\* _processor = AutoProcessor.from_pretrained(model_name)
LoadProcessor(w) ==
  /\ mpc[w] = "processor"
  /\ _processor' = model_name[w]
  /\ mpc' = [mpc EXCEPT ![w] = "model"]
  /\ UNCHANGED <<coreVars, appVars, LYRICS_BACKEND, lpc, lcalled, lret, _model,
                 _loaded_model_name, model_name, used, gret, runs>>

\* _model = MusicgenForConditionalGeneration.from_pretrained(model_name, ..).to(DEVICE)
LoadModel(w) ==
  /\ mpc[w] = "model"
  /\ _model' = model_name[w]
  /\ mpc' = [mpc EXCEPT ![w] = "name"]
  /\ UNCHANGED <<coreVars, appVars, LYRICS_BACKEND, lpc, lcalled, lret, _processor,
                 _loaded_model_name, model_name, used, gret, runs>>

\* _loaded_model_name = model_name
LoadName(w) ==
  /\ mpc[w] = "name"
  /\ _loaded_model_name' = model_name[w]
  /\ mpc' = [mpc EXCEPT ![w] = "process"]
  /\ UNCHANGED <<coreVars, appVars, LYRICS_BACKEND, lpc, lcalled, lret, _model, _processor,
                 model_name, used, gret, runs>>

\* inputs = _processor(text=[prompt], ..): calling None raises TypeError
GenProcess(w) ==
  /\ mpc[w] = "process"
  /\ IF _processor = "None"
       THEN /\ gret' = [gret EXCEPT ![w] = "raised"]
            /\ mpc' = [mpc EXCEPT ![w] = "done"]
            /\ UNCHANGED used
       ELSE /\ used' = [used EXCEPT ![w].processor = _processor]
            /\ mpc' = [mpc EXCEPT ![w] = "generate"]
            /\ UNCHANGED gret
  /\ UNCHANGED <<coreVars, appVars, LYRICS_BACKEND, lpc, lcalled, lret, _model, _processor,
                 _loaded_model_name, model_name, runs>>

\* audio_values = _model.generate(**inputs, ..): None.generate raises AttributeError
GenGenerate(w) ==
  /\ mpc[w] = "generate"
  /\ IF _model = "None"
       THEN /\ gret' = [gret EXCEPT ![w] = "raised"]
            /\ mpc' = [mpc EXCEPT ![w] = "done"]
            /\ UNCHANGED used
       ELSE /\ used' = [used EXCEPT ![w].model = _model]
            /\ mpc' = [mpc EXCEPT ![w] = "rate"]
            /\ UNCHANGED gret
  /\ UNCHANGED <<coreVars, appVars, LYRICS_BACKEND, lpc, lcalled, lret, _model, _processor,
                 _loaded_model_name, model_name, runs>>

\* sample_rate = _model.config.audio_encoder.sampling_rate; return audio, sample_rate
GenReturn(w) ==
  /\ mpc[w] = "rate"
  /\ gret' = [gret EXCEPT ![w] = IF _model = "None" THEN "raised" ELSE "returned"]
  /\ mpc' = [mpc EXCEPT ![w] = "done"]
  /\ UNCHANGED <<coreVars, appVars, LYRICS_BACKEND, lpc, lcalled, lret, _model, _processor,
                 _loaded_model_name, model_name, used, runs>>

\* the worker that called generate is over
MusicDone(w) ==
  /\ mpc[w] = "done"
  /\ mpc' = [mpc EXCEPT ![w] = "idle"]
  /\ UNCHANGED <<coreVars, appVars, LYRICS_BACKEND, lpc, lcalled, lret, _model, _processor,
                 _loaded_model_name, model_name, used, gret, runs>>

\* config.py read, lyrics_gen and music_gen imported
LibInit ==
  /\ pc = "idle"
  /\ entry = "none"
  /\ caller = "none"
  /\ raw = <<>>
  /\ tried = <<>>
  /\ ret = PyNone
  /\ repairCalls = 0
  /\ repairResp = NoResp
  /\ calls = 0
  /\ firstRaw = <<>>
  /\ instrumental = FALSE
  /\ parsed = PyNone
  /\ normIn = PyNone
  /\ outcome = NoOutcome
  /\ again = NoAgain
  /\ AppIdle
  /\ online = FALSE
  /\ session = [messages |-> <<>>, helper_song |-> PyNone, audio |-> "none"]
  /\ requests = 0
  /\ LYRICS_BACKEND \in LyricsBackends
  /\ LibIdle

LibNext ==
  \/ LyricsCall
  \/ LyricsOllama
  \/ LyricsTransformers
  \/ LyricsTemplate
  \/ LyricsDone
  \/ \E w \in Workers : MusicCall(w)
  \/ \E w \in Workers : LoadCheck(w)
  \/ \E w \in Workers : LoadUnload(w)
  \/ \E w \in Workers : LoadProcessor(w)
  \/ \E w \in Workers : LoadModel(w)
  \/ \E w \in Workers : LoadName(w)
  \/ \E w \in Workers : GenProcess(w)
  \/ \E w \in Workers : GenGenerate(w)
  \/ \E w \in Workers : GenReturn(w)
  \/ \E w \in Workers : MusicDone(w)

LibSpec == LibInit /\ [][LibNext]_vars


(***************************************************************************)
(* Properties                                                              *)
(***************************************************************************)
ParsePcs == {"p1", "p2", "p3", "p4", "p5", "ret"}

SchemaKeys ==
  {K_assistant_message, K_song, K_lyrics, K_production_notes, K_need_clarification,
   K_clarifying_question}

\* r is a dict with every field of the schema, each of its type
IsStructuredResult(r) ==
  /\ r.t = "dict"
  /\ DOMAIN r.m = SchemaKeys
  /\ r.m[K_assistant_message].t = "str"
  /\ Song(r).t = "dict"
  /\ DOMAIN Song(r).m = {K_title, K_voice, K_genre, K_bpm, K_mood_tags, K_sound_description}
  /\ \A k \in {K_title, K_voice, K_genre, K_sound_description} : Song(r).m[k].t = "str"
  /\ Song(r).m[K_bpm].t = "int"
  /\ Song(r).m[K_mood_tags].t = "list"
  /\ Lyrics(r).t = "dict"
  /\ DOMAIN Lyrics(r).m = {K_structure, K_text}
  /\ Lyrics(r).m[K_structure].t = "list"
  /\ Lyrics(r).m[K_text].t = "str"
  /\ Production(r).t = "dict"
  /\ DOMAIN Production(r).m = {K_arrangement, K_mix_notes}
  /\ \A k \in {K_arrangement, K_mix_notes} : Production(r).m[k].t = "str"
  /\ r.m[K_need_clarification].t = "bool"
  /\ r.m[K_clarifying_question].t = "str"

\* what a strategy of the running _parse yields
StrategyResult(name) ==
  CASE name = "direct"   -> TryLoad(raw)
    [] name = "close"    -> TryLoad(_close_truncated_json(raw))
    [] name = "extract"  -> TryExtract(raw)
    [] name = "repair"   -> TryRepair(repairResp)
    [] name = "fallback" -> [ok |-> TRUE, v |-> SafeFallback]

\* direct parse, truncation close and block extraction all fail on the raw text
FirstThreeFail ==
  /\ ~TryLoad(raw).ok
  /\ ~TryLoad(_close_truncated_json(raw)).ok
  /\ ~TryExtract(raw).ok

\* the repair call raised, or returned text that direct parse + normalize rejects
RepairFailed == repairResp.raises \/ ~TryLoad(repairResp.text).ok

\* how many steps of _parse are left at most from each position
ParseRank ==
  [p \in ParsePcs \cup {"done"} |->
     CASE p = "p1" -> 6 [] p = "p2" -> 5 [] p = "p3" -> 4 [] p = "p4" -> 3
       [] p = "p5" -> 2 [] p = "ret" -> 1 [] p = "done" -> 0]

\* inside a direct call of _parse nothing has been raised, and once it has
\* returned the result is a StructuredResult
ParseReturnsResult ==
  entry = "parse" =>
    /\ ~outcome.raised
    /\ pc \in ParsePcs \cup {"done"}
    /\ Len(tried) <= Len(Order)
    /\ pc = "done" => IsStructuredResult(outcome.v)

\* every step inside a direct call of _parse brings its return closer
ParseAdvances ==
  (entry = "parse" /\ pc \in ParsePcs) =>
    /\ entry' = "parse"
    /\ pc' \in ParsePcs \cup {"done"}
    /\ ParseRank[pc'] < ParseRank[pc]

\* C1: a direct call of _parse, whatever the raw text and whatever the repair
\* call does, never raises: every step brings its return closer, no step ends
\* it with an exception, and what it returns is a StructuredResult.
ParseNeverRaises == [](ParseReturnsResult) /\ [][ParseAdvances]_vars

\* C1 witness: _parse("") returned although the repair call raised
ParseNeverRaisesWitness ==
  /\ entry = "parse"
  /\ pc = "done"
  /\ firstRaw = <<>>
  /\ repairResp.raises
  /\ IsStructuredResult(outcome.v)

\* C2: inside _parse the strategies are entered in the fixed order with none
\* skipped; every strategy before the last entered one failed; _parse returns
\* exactly when the last entered strategy succeeds, with that strategy's result;
\* the repair call is issued at most once, and only once direct parse,
\* truncation close and block extraction have failed.
StrategiesInOrder ==
  pc \in ParsePcs =>
    /\ tried = SubSeq(Order, 1, Len(tried))
    /\ \A i \in 1..(Len(tried) - 1) : ~StrategyResult(tried[i]).ok
    /\ IF pc = "ret"
         THEN /\ tried # <<>>
              /\ StrategyResult(tried[Len(tried)]).ok
              /\ ret = StrategyResult(tried[Len(tried)]).v
         ELSE /\ Len(tried) < Len(Order)
              /\ pc = <<"p1", "p2", "p3", "p4", "p5">>[Len(tried) + 1]
              /\ tried # <<>> => ~StrategyResult(tried[Len(tried)]).ok
    \* one repair call, made when the repair strategy is entered: by then
    \* the three strategies before it have failed
    /\ repairCalls = (IF Len(tried) >= 4 THEN 1 ELSE 0)

\* C2 witness: the repair call succeeded after the three local strategies failed
StrategiesInOrderWitness ==
  /\ pc = "ret"
  /\ tried = <<"direct", "close", "extract", "repair">>
  /\ repairCalls = 1
  /\ ~repairResp.raises

\* C3: when the three local strategies fail and the repair call raises or
\* returns rejected text, _parse returns the safe fallback: need_clarification
\* true, the fixed non-empty question, every other field as in _FALLBACK; the
\* repair call was made once.
FailedRepairFallsBack ==
  (pc = "ret" /\ FirstThreeFail /\ RepairFailed) =>
    /\ ret.t = "dict"
    /\ DOMAIN ret.m = SchemaKeys
    /\ ret.m[K_need_clarification] = PyBool(TRUE)
    /\ ret.m[K_clarifying_question] = PyS(FallbackQuestion)
    /\ FallbackQuestion # <<>>
    /\ \A k \in SchemaKeys \ {K_need_clarification, K_clarifying_question} :
         ret.m[k] = _FALLBACK.m[k]
    /\ repairCalls = 1
    /\ tried = Order

\* C3 witness: the fallback returned after a repair response that was rejected
FailedRepairFallsBackWitness ==
  /\ pc = "ret"
  /\ FirstThreeFail
  /\ ~repairResp.raises
  /\ repairResp.text # <<>>
  /\ ~TryLoad(repairResp.text).ok
  /\ NeedClarification(ret)

\* C4 as stated: _parse("not json at all") yields need_clarification true and a
\* non-empty clarifying_question.
NotJsonAsksToRephrase ==
  (entry = "parse" /\ pc = "done" /\ firstRaw = NotJson) =>
    /\ NeedClarification(outcome.v)
    /\ ClarifyingQuestion(outcome.v) # <<>>

\* C4 amended: for "not json at all" the three local strategies fail and one
\* repair call is made; when that call raises or returns rejected text, the
\* result has need_clarification true and the fixed non-empty question.
NotJsonFallsBackWhenRepairFails ==
  (entry = "parse" /\ pc = "done" /\ firstRaw = NotJson) =>
    /\ Len(tried) >= 4
    /\ calls = 1
    /\ RepairFailed =>
         /\ NeedClarification(outcome.v)
         /\ ClarifyingQuestion(outcome.v) = FallbackQuestion
         /\ ClarifyingQuestion(outcome.v) # <<>>

\* C4 witness: _parse("not json at all") returned after the repair call raised
NotJsonFallsBackWitness ==
  /\ entry = "parse"
  /\ pc = "done"
  /\ firstRaw = NotJson
  /\ repairResp.raises
  /\ NeedClarification(outcome.v)

\* a call from outside has returned a result
Returned == pc \in {"done", "normalized"} /\ ~outcome.raised

\* C5 as stated: every result returned by _normalize, _parse or generate with
\* need_clarification true has a non-empty clarifying_question.
ClarificationHasQuestion ==
  (Returned /\ NeedClarification(outcome.v)) => ClarifyingQuestion(outcome.v) # <<>>

\* C6 as stated: _normalize returns a StructuredResult for every map parsed from
\* text, whatever the types of its values; it never raises.
NormalizeTotal ==
  (entry = "normalize" /\ normIn.t = "dict") =>
    /\ ~outcome.raised
    /\ IsStructuredResult(outcome.v)

\* C7 as stated: _normalize applied to what _normalize returned gives the same
\* result, field by field.
NormalizeIdempotent ==
  (entry = "normalize" /\ pc = "done" /\ ~outcome.raised) =>
    /\ again.ok
    /\ again.v = outcome.v

\* the str fields of the schema: the dict holding each (the top level for
\* <<>>), its key and its default
StrFields ==
  {[in |-> <<>>, key |-> K_assistant_message, default |-> <<>>],
   [in |-> K_song, key |-> K_title, default |-> <<>>],
   [in |-> K_song, key |-> K_voice, default |-> S_neutral],
   [in |-> K_song, key |-> K_genre, default |-> S_pop],
   [in |-> K_song, key |-> K_sound_description, default |-> <<>>],
   [in |-> K_lyrics, key |-> K_text, default |-> <<>>],
   [in |-> K_production_notes, key |-> K_arrangement, default |-> <<>>],
   [in |-> K_production_notes, key |-> K_mix_notes, default |-> <<>>],
   [in |-> <<>>, key |-> K_clarifying_question, default |-> <<>>]}

\* the dict of d that holds field f
Holder(d, f) == IF f.in = <<>> THEN d ELSE DictGet(d, f.in, EmptyDict)

\* field f of d is absent or holds a known placeholder string
AbsentOrPlaceholder(d, f) ==
  \/ f.key \notin DOMAIN Holder(d, f).m
  \/ /\ Holder(d, f).m[f.key].t = "str"
     /\ Holder(d, f).m[f.key].s \in _PLACEHOLDERS

\* C8 as stated: after _normalize every schema field is present, and every str
\* field that was absent or a placeholder holds its default.
PlaceholdersReplaced ==
  (entry = "normalize" /\ ~outcome.raised /\ pc \in {"normalized", "done"}) =>
    /\ IsStructuredResult(outcome.v)
    /\ \A f \in StrFields :
         AbsentOrPlaceholder(normIn, f) => Holder(outcome.v, f).m[f.key] = PyS(f.default)

\* the raw text is valid json holding a map
RawIsValidMap == Loads(firstRaw).ok /\ Loads(firstRaw).v.t = "dict"

\* C9 as stated: for raw text that json.loads reads as a map, _parse returns
\* from the direct parse with _normalize of the loaded data, and issues no
\* backend call.
ValidTextParsesDirectly ==
  (entry = "parse" /\ pc = "done" /\ RawIsValidMap) =>
    /\ tried = <<"direct">>
    /\ calls = 0
    /\ _normalize(Loads(firstRaw).v).ok
    /\ outcome.v = _normalize(Loads(firstRaw).v).v

\* rec holds the fields of orig up to a cut: each dict / list of rec is a
\* prefix of the one in orig, equal to it before its last item
RECURSIVE Matches(_, _)
Matches(rec, orig) ==
  CASE rec.t = "dict" /\ orig.t = "dict" ->
         /\ Len(rec.keys) <= Len(orig.keys)
         /\ rec.keys = SubSeq(orig.keys, 1, Len(rec.keys))
         /\ \A i \in 1..(Len(rec.keys) - 1) : rec.m[rec.keys[i]] = orig.m[rec.keys[i]]
         /\ rec.keys # <<>> =>
              Matches(rec.m[rec.keys[Len(rec.keys)]], orig.m[rec.keys[Len(rec.keys)]])
    [] rec.t = "list" /\ orig.t = "list" ->
         /\ Len(rec.a) <= Len(orig.a)
         /\ \A i \in 1..(Len(rec.a) - 1) : rec.a[i] = orig.a[i]
         /\ rec.a # <<>> => Matches(rec.a[Len(rec.a)], orig.a[Len(rec.a)])
    [] rec.t = "str" /\ orig.t = "str" ->
         Len(rec.s) <= Len(orig.s) /\ rec.s = SubSeq(orig.s, 1, Len(rec.s))
    [] OTHER -> rec.t \notin {"dict", "list", "str"}

\* the raw text is the Night Drive object without its final brace
FinalBraceStripped == firstRaw = SubSeq(NightDrive, 1, Len(NightDrive) - 1)

\* where the value of lyrics.text starts in the Night Drive object: the index
\* after its opening quote
LyricsTextStart ==
  CHOOSE i \in 2..Len(NightDrive) :
    StartsWithAt(NightDrive, i - 1, <<"\"", "[", "V", "e", "r", "s", "e">>)

\* the index of its closing quote
LyricsTextEnd ==
  CHOOSE i \in 5..Len(NightDrive) :
    StartsWithAt(NightDrive, i - 4, <<"b", "a", "r", "s", "\"", "}">>)

\* the raw text is the Night Drive object cut inside the open string literal
\* of lyrics.text
CutInsideString ==
  /\ Len(firstRaw) \in (LyricsTextStart - 1)..(LyricsTextEnd - 1)
  /\ firstRaw = SubSeq(NightDrive, 1, Len(firstRaw))

\* C10 as stated: for the Night Drive object with its final brace stripped, or
\* cut inside the open string literal of lyrics.text, _parse returns from the
\* truncation close
\* without a backend call, and the recovered object holds the fields of
\* the original before the cut; with only the final brace stripped the title
\* is "Night Drive", the bpm 110 and need_clarification false.
TruncationCloseRecovers ==
  (entry = "parse" /\ pc = "done" /\ (FinalBraceStripped \/ CutInsideString)) =>
    /\ tried = <<"direct", "close">>
    /\ calls = 0
    /\ Matches(Loads(_close_truncated_json(firstRaw)).v, Loads(NightDrive).v)
    /\ outcome.v = _normalize(Loads(_close_truncated_json(firstRaw)).v).v
    /\ FinalBraceStripped =>
         /\ Song(outcome.v).m[K_title] = PyS(<<"N", "i", "g", "h", "t", " ", "D", "r", "i", "v", "e">>)
         /\ Song(outcome.v).m[K_bpm] = PyInt(110)
         /\ ~NeedClarification(outcome.v)

\* the part of C10 about the final brace alone (it holds)
FinalBraceRecovered ==
  (entry = "parse" /\ pc = "done" /\ FinalBraceStripped) =>
    /\ tried = <<"direct", "close">>
    /\ calls = 0
    /\ outcome.v = _normalize(Loads(NightDrive).v).v
    /\ Song(outcome.v).m[K_title] = PyS(<<"N", "i", "g", "h", "t", " ", "D", "r", "i", "v", "e">>)
    /\ Song(outcome.v).m[K_bpm] = PyInt(110)
    /\ ~NeedClarification(outcome.v)


\* the raw text is prose holding no opening brace, then a block
ProseThenBlock ==
  /\ FirstBrace(firstRaw) > 1
  /\ SubSeq(firstRaw, 1, FirstBrace(firstRaw) - 1) = Prose

\* the object the block holds: loaded as it is, or else after truncation close
BlockObject ==
  IF Loads(Block(firstRaw)).ok THEN Loads(Block(firstRaw))
  ELSE Loads(_close_truncated_json(Block(firstRaw)))

\* C11 as stated: for prose followed by a block that loads as a map, as it is
\* or after truncation close, _parse returns from block extraction with
\* _normalize of that map, and issues no backend call.
ProseBlockExtracted ==
  (entry = "parse" /\ pc = "done" /\ ProseThenBlock
     /\ BlockObject.ok /\ BlockObject.v.t = "dict") =>
    /\ tried = <<"direct", "close", "extract">>
    /\ calls = 0
    /\ _normalize(BlockObject.v).ok
    /\ outcome.v = _normalize(BlockObject.v).v

\* the part of C11 for blocks whose map _normalize accepts (it holds)
ProseBlockExtractedWhenNormal ==
  (entry = "parse" /\ pc = "done" /\ ProseThenBlock
     /\ BlockObject.ok /\ BlockObject.v.t = "dict" /\ _normalize(BlockObject.v).ok) =>
    /\ tried = <<"direct", "close", "extract">>
    /\ calls = 0
    /\ outcome.v = _normalize(BlockObject.v).v


\* no banned phrase occurs in the lowered lyrics.text of r
NoBannedPhrase(r) ==
  \A i \in 1..Len(BANNED) : ~Contains(ToLower(LyricsText(r)), BANNED[i])

\* the step of _lint on an input without banned phrase returns the input and
\* leaves the count of backend calls as it is
LintStepIsNoOp ==
  (pc = "lint" /\ NoBannedPhrase(parsed)) =>
    /\ pc' = "done"
    /\ outcome' = [raised |-> FALSE, v |-> parsed]
    /\ calls' = calls
    /\ parsed' = parsed

\* a generate that ran _lint on a result without banned phrase returns that
\* result, and its backend calls are the first call and the repair call of the
\* first _parse, if any
LintedCleanUnchanged ==
  (entry = "generate" /\ pc = "done" /\ ~outcome.raised /\ ~instrumental
     /\ ~NeedClarification(parsed) /\ NoBannedPhrase(parsed)) =>
    /\ outcome.v = parsed
    /\ caller = "generate"
    /\ calls = 1 + repairCalls

\* C12: when no banned phrase occurs, case-insensitively, in lyrics.text, _lint
\* returns its input unchanged and issues no backend call.
LintNoOpWhenClean == [](LintedCleanUnchanged) /\ [][LintStepIsNoOp]_vars

\* C12 witness: _lint returned a result with lyrics and no banned phrase
LintNoOpWhenCleanWitness ==
  /\ entry = "generate"
  /\ pc = "done"
  /\ ~outcome.raised
  /\ ~instrumental
  /\ ~NeedClarification(parsed)
  /\ LyricsText(parsed) # <<>>
  /\ NoBannedPhrase(parsed)
  /\ outcome.v = parsed


\* generate has ended after _lint ran on parsed
LintRan ==
  /\ entry = "generate"
  /\ pc = "done"
  /\ parsed.t = "dict"
  /\ ~instrumental
  /\ ~NeedClarification(parsed)

\* C13: when _lint returns, for whatever text the rewrite call returned, the
\* result has non-empty lyrics.text if the input of _lint had.
LintKeepsLyrics ==
  (LintRan /\ ~outcome.raised /\ LyricsText(parsed) # <<>>) =>
    LyricsText(outcome.v) # <<>>

\* C13 witness: the rewrite came back without lyrics and _lint returned its input
LintKeepsLyricsWitness ==
  /\ LintRan
  /\ ~outcome.raised
  /\ caller = "lint"
  /\ LyricsText(ret) = <<>>
  /\ LyricsText(parsed) # <<>>
  /\ outcome.v = parsed

\* the rewrite call of _lint raised
RewriteRaised == LintRan /\ outcome.raised

\* the rewrite call returned text that _parse turned into a result without lyrics
RewriteWithoutLyrics == LintRan /\ caller = "lint" /\ LyricsText(ret) = <<>>

\* C14 as stated: when the rewrite call raises, or its response gives no result
\* with non-empty lyrics.text, _lint and generate return the original result.
FailedRewriteKeepsOriginal ==
  (RewriteRaised \/ RewriteWithoutLyrics) =>
    /\ ~outcome.raised
    /\ outcome.v = parsed

\* the part of C14 about a response without lyrics (it holds)
RewriteWithoutLyricsKeepsOriginal ==
  RewriteWithoutLyrics => (~outcome.raised /\ outcome.v = parsed)

\* how many steps of generate are left at most from each position
GenerateRank ==
  CASE pc \in ParsePcs /\ caller = "generate" -> 10 + ParseRank[pc]
    [] pc = "lint"                            -> 9
    [] pc = "rewrite"                         -> 8
    [] pc \in ParsePcs /\ caller = "lint"     -> 1 + ParseRank[pc]
    [] OTHER                                  -> 0

\* the backend calls of a generate: the first call and one repair call of the
\* first _parse, then one rewrite call and one repair call of the second _parse;
\* _lint is entered from the first _parse only
GenerateCallsBounded ==
  entry = "generate" =>
    /\ calls <= 4
    /\ repairCalls <= 1
    /\ caller = "generate" =>
         calls = 1 + repairCalls + (IF pc = "done" /\ outcome.raised THEN 1 ELSE 0)
    /\ caller = "lint" => calls \in {2 + repairCalls, 3 + repairCalls}
    /\ pc \in {"lint", "rewrite"} => caller = "generate"

\* every step of a generate brings its end closer, and issues one call at most
GenerateAdvances ==
  (entry = "generate" /\ pc # "done") =>
    /\ entry' = "generate"
    /\ GenerateRank' < GenerateRank
    /\ calls' \in {calls, calls + 1}

\* C15: _lint issues one rewrite call at most and is not entered again for the
\* rewritten result; with one repair call at most per _parse, a generate ends
\* after four backend calls at most.
GenerateAtMostFourCalls == [](GenerateCallsBounded) /\ [][GenerateAdvances]_vars

\* C15 witness: a generate ended after four calls with a rewritten result that
\* still holds a banned phrase
GenerateAtMostFourCallsWitness ==
  /\ LintRan
  /\ ~outcome.raised
  /\ caller = "lint"
  /\ calls = 4
  /\ outcome.v = ret
  /\ ~NoBannedPhrase(outcome.v)


(***************************************************************************)
(* Properties of the orchestrators                                         *)
(***************************************************************************)
\* the slots of a stage are empty until its worker has stored, and hold one
\* value, the result or the error, from then on
SlotsWriteOnce ==
  \A s \in Stages :
    /\ writes[s].res <= 1
    /\ writes[s].exc <= 1
    /\ writes[s].res + writes[s].exc <= 1
    /\ (writes[s].res = 1) = (result[s] # PyNone)
    /\ (writes[s].exc = 1) = (exc[s] # PyNone)
    /\ thread[s] \in {"none", "created", "running"} => writes[s].res + writes[s].exc = 0
    /\ thread[s] \in {"stored", "dead"} => writes[s].res + writes[s].exc = 1

\* a thread goes created (Pending), running (Running), stored, dead (Succeeded
\* or Failed) in this order, and a slot once assigned keeps its value, until
\* the generator that owns the threads is over
StageTransitions ==
  gen' # "none" =>
    \A s \in Stages :
      /\ thread'[s] # thread[s] =>
           <<thread[s], thread'[s]>> \in
             {<<"none", "created">>, <<"created", "running">>, <<"running", "stored">>,
              <<"stored", "dead">>}
      /\ (thread[s] = "none" /\ thread'[s] = "created") => (s = stage /\ gpc = "create")
      /\ (thread[s] = "created" /\ thread'[s] = "running") => (s = stage /\ gpc = "start")
      /\ writes[s].res + writes[s].exc = 1 =>
           (result'[s] = result[s] /\ exc'[s] = exc[s] /\ writes'[s] = writes[s])

\* C16: a stage started with _run_bg is Pending, then Running on dispatch, then
\* ends once, Succeeded or Failed; each of its two slots is assigned once at
\* most and never both, and once it has ended one of them holds its outcome.
StageLifecycle == [](SlotsWriteOnce) /\ [][StageTransitions]_vars

\* C16 witness: one stage of a request has ended Succeeded and the next Failed
StageLifecycleWitness ==
  /\ thread["lyrics"] = "dead"
  /\ result["lyrics"] # PyNone
  /\ exc["lyrics"] = PyNone
  /\ thread["music"] = "dead"
  /\ exc["music"] = PyError
  /\ result["music"] = PyNone

\* the worker has assigned a slot before its thread stops being alive
WriteBeforeClear ==
  \A s \in Stages :
    (IsAlive(s) /\ thread'[s] = "dead") => writes[s].res + writes[s].exc = 1

\* the generator is where it reads a slot only after is_alive() was false and
\* join has returned
ReadAfterClear ==
  gpc = "read" =>
    /\ thread[stage] = "dead"
    /\ trace[Len(trace)] = "joined"
    /\ writes[stage].res + writes[stage].exc = 1

\* C17: however the worker and the generator interleave, the worker assigns
\* the slot before its thread stops being alive, and the generator reads the
\* slot only after it has seen is_alive() false and join has returned.
SlotHandoff == [](ReadAfterClear) /\ [][WriteBeforeClear]_vars

\* C17 witness: the generator polled a live worker, and is now about to read
\* the error slot of the dead one
SlotHandoffWitness ==
  /\ gpc = "read"
  /\ polls > 0
  /\ thread[stage] = "dead"
  /\ exc[stage] = PyError

\* the stages on_submit dispatches after stage s
LaterStages(s) ==
  CASE s = "lyrics" -> {"music", "vocals"}
    [] s = "music"  -> {"vocals"}
    [] OTHER        -> {}

\* once the work of stage s of on_submit has raised, no later stage is
\* dispatched and nothing is mixed or saved
FailFastFrom(s) ==
  (gen = "submit" /\ exc[s] # PyNone) =>
    /\ \A l \in LaterStages(s) : thread[l] = "none"
    /\ saved = "none"

\* C18 as stated: in on_submit, once the work of the lyrics, the instrumental
\* or the vocals stage has raised, no later stage is dispatched and nothing is
\* mixed or saved.
FailFast == \A s \in {"lyrics", "music", "vocals"} : FailFastFrom(s)

\* the part of C18 about the instrumental and the vocals stage (it holds)
FailFastAfterLyrics == FailFastFrom("music") /\ FailFastFrom("vocals")

\* the work of a stage of the generator that is over has raised
StageRaised == ended # "no" /\ \E s \in Stages : exc[s] # PyNone

LastEntry(m) == m[Len(m)]

\* C19 as stated: when the work of a stage has raised, the generator,
\* _helper_core or on_submit, yields a last snapshot whose last entry is an
\* error card and returns.
ErrorCardDelivered ==
  StageRaised =>
    /\ ended = "returned"
    /\ session.messages # <<>>
    /\ LastEntry(session.messages) = Entry("bot", "error")

\* the part of C19 about _helper_core (it holds)
HelperErrorCardDelivered == gen = "helper" => ErrorCardDelivered

\* after each dispatch comes a snapshot, before any wait
SnapshotAfterDispatch ==
  \A i \in 1..Len(trace) :
    (trace[i] = "dispatch" /\ i < Len(trace)) => trace[i + 1] = "yield"

\* after each wait comes a snapshot
SnapshotPerPoll ==
  \A i \in 1..Len(trace) :
    (trace[i] = "sleep" /\ i < Len(trace)) => trace[i + 1] = "yield"

\* after the end of each stage comes one more snapshot, before anything else
\* is dispatched or saved and before the generator is over
SnapshotAfterEnd ==
  \A i \in 1..Len(trace) :
    trace[i] = "joined" =>
      /\ i < Len(trace) => trace[i + 1] = "yield"
      /\ i = Len(trace) => ended = "no"

\* C20 as stated: for every stage it dispatches the generator yields a
\* snapshot right after the dispatch, before the first wait, one per wait while
\* the worker is alive, and one more after the stage has ended.
SnapshotsAroundStages ==
  /\ SnapshotAfterDispatch
  /\ SnapshotPerPoll
  /\ SnapshotAfterEnd

\* C20 for _helper_core alone (it holds)
HelperSnapshotsAroundStage == gen = "helper" => SnapshotsAroundStages


(***************************************************************************)
(* Properties of _close_truncated_json                                     *)
(***************************************************************************)
ScanStacks == {<<>>, <<"{">>, <<"[">>, <<"{", "[">>, <<"[", "{">>}
ScanChars == {"{", "}", "[", "]", "\"", "\\", ":", "a", " "}

\* one character of the scan: an escaped character is skipped; inside a string
\* a backslash escapes, a quote closes, and brackets are ignored; outside a
\* string a quote opens, an opener is pushed and a closer pops
ScanStepLaw(st, ch, n) ==
  /\ st.escape => n = [st EXCEPT !.escape = FALSE]
  /\ (~st.escape /\ st.in_string) =>
       /\ n.stack = st.stack
       /\ n.escape = (ch = "\\")
       /\ n.in_string = (ch # "\"")
  /\ (~st.escape /\ ~st.in_string) =>
       /\ ~n.escape
       /\ n.in_string = (ch = "\"")
       /\ n.stack = IF ch \in {"{", "["} THEN Append(st.stack, ch)
                    ELSE IF ch \in {"}", "]"} /\ st.stack # <<>>
                      THEN SubSeq(st.stack, 1, Len(st.stack) - 1)
                    ELSE st.stack

ScanLaws ==
  \A i \in BOOLEAN, e \in BOOLEAN, k \in ScanStacks, ch \in ScanChars :
    ScanStepLaw([in_string |-> i, escape |-> e, stack |-> k], ch,
                CloseStep([in_string |-> i, escape |-> e, stack |-> k], ch))

\* out is s, then a quote iff the scan of s ends inside a string, then one
\* closer per open opener, the last opened first, each of its opener's type
ClosedAs(s, st, out) ==
  /\ Len(out) = Len(s) + (IF st.in_string THEN 1 ELSE 0) + Len(st.stack)
  /\ SubSeq(out, 1, Len(s)) = s
  /\ st.in_string => out[Len(s) + 1] = "\""
  /\ \A k \in 1..Len(st.stack) :
       out[Len(out) - Len(st.stack) + k] =
         (IF st.stack[Len(st.stack) + 1 - k] = "{" THEN "}" ELSE "]")

\* the truncation close of the running _parse has been tried
CloseTried == pc \in ParsePcs /\ Len(tried) >= 2 /\ tried[2] = "close"

\* C28: _close_truncated_json only appends to its right-stripped input: the
\* scan tracks the open string (a backslash inside a string escapes the next
\* character) and the stack of openers outside strings; one quote is appended
\* iff a string is left open, then one closer per open opener, last opened
\* first, each matching its opener.
CloseOnlyAppends ==
  /\ ScanLaws
  /\ CloseTried =>
       ClosedAs(RStrip(raw), CloseScanAll(RStrip(raw)), _close_truncated_json(raw))

\* C28 witness: the text closed was cut inside a string with a `[` open inside
\* a `{`
CloseOnlyAppendsWitness ==
  /\ CloseTried
  /\ CloseScanAll(RStrip(raw)).in_string
  /\ Len(CloseScanAll(RStrip(raw)).stack) >= 2
  /\ CloseScanAll(RStrip(raw)).stack[1] = "{"
  /\ CloseScanAll(RStrip(raw)).stack[Len(CloseScanAll(RStrip(raw)).stack)] = "["


\* C29 as stated: _close_truncated_json applied to its own output appends
\* nothing more, for every text, texts cut right after a backslash inside a
\* string included.
CloseIdempotent ==
  CloseTried =>
    _close_truncated_json(_close_truncated_json(raw)) = _close_truncated_json(raw)

\* C29 for the texts whose scan does not end right after a backslash inside a
\* string (it holds)
CloseIdempotentUnlessEscaped ==
  (CloseTried /\ ~CloseScanAll(RStrip(raw)).escape) =>
    _close_truncated_json(_close_truncated_json(raw)) = _close_truncated_json(raw)


(***************************************************************************)
(* Properties of lyrics_gen and music_gen                                  *)
(***************************************************************************)
\* the backends generate may call, in order, for a configured backend
FallbackChain(b) ==
  CASE b = "ollama"       -> <<"ollama", "transformers", "template">>
    [] b = "transformers" -> <<"transformers", "template">>
    [] OTHER              -> <<"template">>

\* C27: lyrics_gen.generate never raises on a backend failure: with ollama
\* configured it tries Ollama, then on failure transformers, then on failure
\* the template, which is always last; with the template configured neither
\* Ollama nor transformers is called. What it returns is what the last backend
\* called returned.
LyricsFallsBack ==
  /\ ~lret.raised
  /\ lpc # "idle" =>
       /\ Len(lcalled) <= Len(FallbackChain(LYRICS_BACKEND))
       /\ lcalled = SubSeq(FallbackChain(LYRICS_BACKEND), 1, Len(lcalled))
  /\ lpc = "done" =>
       /\ lcalled # <<>>
       /\ lret.v = CASE lcalled[Len(lcalled)] = "ollama"       -> "ollama lyrics"
                     [] lcalled[Len(lcalled)] = "transformers" -> "transformers lyrics"
                     [] OTHER                                   -> "template lyrics"
  /\ (lpc = "done" /\ LYRICS_BACKEND = "template") => lcalled = <<"template">>

\* C27 witness: with ollama configured both model backends failed and generate
\* returned the template lyrics
LyricsFallsBackWitness ==
  /\ LYRICS_BACKEND = "ollama"
  /\ lpc = "done"
  /\ lcalled = <<"ollama", "transformers", "template">>
  /\ lret = [raised |-> FALSE, v |-> "template lyrics"]

\* the two workers have asked for different models
DifferentModels ==
  /\ \A w \in Workers : model_name[w] # "None"
  /\ model_name[1] # model_name[2]

\* C30 as stated: when two workers run music_gen.generate with different model
\* sizes, each generation returns, and has run with the processor and the model
\* of the size its worker asked for, whatever the other worker does meanwhile.
EachUsesItsModel ==
  \A w \in Workers :
    (DifferentModels /\ mpc[w] = "done") =>
      /\ gret[w] = "returned"
      /\ used[w] = [processor |-> model_name[w], model |-> model_name[w]]


(***************************************************************************)
(* Properties of the snapshots                                             *)
(***************************************************************************)
\* the percentage of the progress bar an entry shows, -1 when it shows none
Percent(e) ==
  CASE e.kind = "progress 20" -> 20
    [] e.kind = "progress 60" -> 60
    [] e.kind = "progress 90" -> 90
    [] OTHER                  -> -1

\* the percentage of the last entry of the snapshot
ShownPercent(s) == IF s.messages = <<>> THEN -1 ELSE Percent(LastEntry(s.messages))

RECURSIVE CountOf(_, _)
CountOf(seq, x) ==
  IF seq = <<>> THEN 0
  ELSE (IF Head(seq) = x THEN 1 ELSE 0) + CountOf(Tail(seq), x)

\* the step yields a snapshot
Yields == trace' # trace /\ trace' # <<>> /\ trace'[Len(trace')] = "yield"

\* the generator has returned after a last stage that was polled three times
\* and whose work returned a value
ThreeIntervalsThenValue ==
  /\ ended = "returned"
  /\ stage # "none"
  /\ polls >= 3
  /\ result[stage] # PyNone

\* the snapshots of such a run: four at least, and the last one shows the
\* outcome: the card and the result for _helper_core, the saved audio for
\* on_submit
ScenarioSnapshots ==
  ThreeIntervalsThenValue =>
    /\ CountOf(trace, "yield") >= 4
    /\ CountOf(trace, "sleep") >= polls
    /\ trace[Len(trace)] = "yield"
    /\ gen = "helper" =>
         /\ session.helper_song = result["helper"]
         /\ LastEntry(session.messages) = Entry("bot", "card")
    /\ gen = "submit" =>
         /\ session.audio = saved
         /\ saved # "none"
         /\ LastEntry(session.messages) = Entry("bot", "final")

\* a snapshot yielded from the polling loop is one of a live worker, and the
\* percentage shown never goes down from one snapshot to the next
SnapshotStep ==
  (Yields /\ gen # "none") =>
    /\ gpc = "poll" => IsAlive(stage)
    /\ (ShownPercent(session) >= 0 /\ ShownPercent(session') >= 0) =>
         ShownPercent(session') >= ShownPercent(session)

RECURSIVE LastSeen(_, _)
LastSeen(ys, o) ==
  IF ys = <<>> THEN <<>>
  ELSE IF ys[Len(ys)].obj = o THEN ys[Len(ys)].seen
  ELSE LastSeen(SubSeq(ys, 1, Len(ys) - 1), o)

ObjectNow(o) == IF o = mobj THEN messages ELSE LastSeen(yielded, o)

\* C22: the transcript carried by a snapshot that was yielded is not changed
\* by a later step of the same invocation: the list object handed out holds
\* what it held when it was yielded.
SnapshotsImmutable ==
  \A i \in DOMAIN yielded : ObjectNow(yielded[i].obj) = yielded[i].seen

\* what does hold: a snapshot handed out keeps all its entries but the last
SnapshotsKeepHistory ==
  \A i \in DOMAIN yielded :
    LET now == ObjectNow(yielded[i].obj)
        was == yielded[i].seen
    IN  /\ Len(now) = Len(was)
        /\ \A k \in 1..(Len(was) - 1) : now[k] = was[k]

\* a step of a running generator that writes messages[-1]
Replaces ==
  /\ gen # "none"
  /\ gen' = gen
  /\ Len(messages') = Len(messages)
  /\ messages' # messages

\* a step of a generator keeps the entries of the transcript: it adds entries
\* at the end, in a list of its own, or replaces the last one, an entry of the
\* assistant
KeepsEntries ==
  gen' # "none" =>
    LET old == IF gen = "none" THEN session.messages ELSE messages
    IN  /\ Len(messages') >= Len(old)
        /\ \A k \in 1..(Len(old) - 1) : messages'[k] = old[k]
        /\ (gen = "none" /\ old # <<>>) => messages'[Len(old)] = old[Len(old)]
        /\ Replaces =>
             /\ mobj' = mobj
             /\ mobj # 0
             /\ messages[Len(messages)].role = "bot"
             /\ messages'[Len(messages)].role = "bot"

\* what does hold: the transcript is append-only but for its last entry
TranscriptKeepsEntries == [][KeepsEntries]_vars

\* C23: the transcript is append-only across an invocation: the entries of the
\* caller's transcript and the new user entry are never modified or removed,
\* and the one in-place write, the replacement of the most recent assistant
\* entry, happens only while the worker of its stage is running.
TranscriptAppendOnly ==
  [][KeepsEntries /\ (Replaces => (stage # "none" /\ IsAlive(stage)))]_vars


\* a step of the worker of stage s: it stores its outcome or exits
WorkerStep(s) ==
  /\ thread[s] \in {"running", "stored"}
  /\ thread'[s] # thread[s]
  /\ thread'[s] \in {"stored", "dead"}

\* what a worker of stage s leaves alone: all but its own slot
WorkerFrame(s) ==
  /\ UNCHANGED <<messages, session, mobj, yielded, gen, gpc, req, stage, polls, trace,
                 lyrics_text, unpacked, mixed, saved, ended, requests>>
  /\ \A o \in Stages \ {s} :
       /\ result'[o] = result[o]
       /\ exc'[o] = exc[o]
       /\ thread'[o] = thread[o]
       /\ writes'[o] = writes[o]

\* C24: in every interleaving the transcript and the helper state of the
\* session are written by the generator only: a step of a worker changes
\* nothing but the result and the error slot of its own stage.
WorkersWriteOwnSlot ==
  [][/\ \A s \in Stages : WorkerStep(s) => WorkerFrame(s)
     /\ (messages' # messages \/ session' # session) =>
          (\A s \in Stages : ~WorkerStep(s))]_vars

\* C24 witness: the worker of the helper stage has stored its result while the
\* generator is in its polling loop and the session still has the old state
WorkersWriteOwnSlotWitness ==
  /\ gen = "helper"
  /\ gpc = "poll"
  /\ polls >= 1
  /\ thread["helper"] = "stored"
  /\ result["helper"] # PyNone
  /\ session.helper_song # result["helper"]
  /\ LastEntry(session.messages) = Entry("bot", "thinking")


\* the workers that exist and have not exited
LiveWorkers == {s \in Stages : thread[s] \in {"created", "running", "stored"}}

\* the (waveform, sample rate) pair a stage's work returned
Succeeded(s) ==
  /\ thread[s] = "dead"
  /\ exc[s] = PyNone
  /\ result[s] # PyNone
  /\ result[s].t = "tuple"

\* one worker at a time, and mixer.mix gets what the two stages returned
OneWorkerThenMix ==
  gen = "submit" =>
    /\ Cardinality(LiveWorkers) <= 1
    /\ LiveWorkers \subseteq {stage}
    /\ Len(mixed) = 2 =>
         /\ Succeeded("music")
         /\ Succeeded("vocals")
         /\ mixed = <<result["music"], result["vocals"]>>

\* _run_bg is entered when the workers dispatched before have exited and
\* the generator has read what they left
DispatchAfterRead ==
  (gpc' = "create" /\ gpc # "create" /\ gen' = "submit") =>
    /\ LiveWorkers = {}
    /\ stage' = "vocals" => unpacked'.instrumental = result["music"]
    /\ stage' = "music" =>
         (thread["lyrics"] = "dead" => lyrics_text' = (IF Truthy(result["lyrics"])
                                                        THEN result["lyrics"].s ELSE <<>>))

\* C26: in on_submit the work of a stage is dispatched only after the stage
\* before it has terminated and its result has been read, so that one worker
\* at most is alive at any time; mixer.mix is called only after the
\* instrumental and the vocals stage both succeeded, with exactly the
\* (waveform, sample rate) pairs the two stages returned.
StagesInSequence == [](OneWorkerThenMix) /\ [][DispatchAfterRead]_vars

\* C26 witness: mixer.mix has been called with the pairs of the two stages
StagesInSequenceWitness ==
  /\ gen = "submit"
  /\ saved = "song"
  /\ mixed = <<Audio("other beat", 32000), Audio("voice", 24000)>>
  /\ result["music"] = mixed[1]
  /\ result["vocals"] = mixed[2]


\* a worker that is alive is left to run: no step takes it back or away
WorkerNotStopped ==
  \A s \in Stages :
    IsAlive(s) => thread'[s] \in {"running", "stored", "dead"}

\* once the consumer has abandoned the generator, the invocation reads no slot
\* and hands nothing to the session or the mixer any more
AbandonedIsSilent ==
  ended = "abandoned" =>
    /\ session' = session
    /\ ended' = "abandoned" =>
         UNCHANGED <<gpc, messages, mobj, yielded, lyrics_text, unpacked, mixed, saved>>

\* the worker of a generator that was abandoned comes to its end
AbandonedWorkerTerminates ==
  \A s \in Stages : (ended = "abandoned" /\ IsAlive(s)) ~> (thread[s] = "dead")

\* the steps a worker has left: two while its work runs, one once it has
\* stored its outcome
WorkerRank(s) ==
  CASE thread[s] = "running" -> 2
    [] thread[s] = "stored"  -> 1
    [] OTHER                 -> 0

\* a step of a worker brings it nearer to its end
WorkerAdvances ==
  \A s \in Stages : WorkerStep(s) => WorkerRank(s)' < WorkerRank(s)

\* C25: there is no cancellation in the middle of a stage: when the consumer
\* abandons the generator while a worker is running, the worker still comes to
\* its end, what it stored is read by nobody, and the invocation updates
\* neither the transcript nor the helper state of the session afterwards.
NoCancellation ==
  /\ [][WorkerNotStopped /\ WorkerAdvances /\ AbandonedIsSilent]_vars
  /\ AbandonedWorkerTerminates

\* C25 witness: the generator was abandoned in its polling loop, the worker
\* has stored a result and exited, and the session has the snapshot of the
\* last yield and the old helper state
NoCancellationWitness ==
  /\ gen = "helper"
  /\ ended = "abandoned"
  /\ thread["helper"] = "dead"
  /\ result["helper"] # PyNone
  /\ session.helper_song = PyNone
  /\ LastEntry(session.messages) = Entry("bot", "thinking")

=============================================================================
